---------------------------- MODULE Spec2Model ----------------------------
(***************************************************************************)
(* A model of darktable's filmic rgb module (src/iop/filmicrgb.c): the     *)
(* process() entry point with its scratch buffers, the clipped-pixel mask, *)
(* the wavelets highlights reconstruction, the scale count, and the        *)
(* parameter edits of the GUI.                                             *)
(*                                                                         *)
(* Floats are modelled by exact rationals <<n, d>> (d > 0, lowest terms),  *)
(* with <<0, 0>> standing for NaN (the result of 0.0f / 0.0f).  The inputs *)
(* are chosen so that sqrtf, exp2f and log2f are exact on them.            *)
(***************************************************************************)
EXTENDS Integers, Sequences, FiniteSets, TLC

(***************************************************************************)
(* Bounds of the model.                                                    *)
(***************************************************************************)
\* roi_out->width * roi_out->height: the pixels of the processed region
MaxPix == 12
\* largest high_quality_reconstruction iteration count explored
MaxHQ == 2
\* longest sequence of parameter edits explored in one GUI session
MaxEdits == 2
\* roi_out->width and roi_out->height of the reconstruction followed pixel by pixel
RoiWidth == 6
RoiHeight == 6
\* largest team of threads running the loop of inpaint_noise
MaxThreads == 2
\* num_elem / ch: the pixels of an inpaint_noise call
NoisePix == 4
\* the largest scale whose blur step 2^s is explored tap by tap
MaxTapScale == 3
\* the nesting of ++darktable.gui->reset explored
MaxReset == 2
\* the pixels of the other parallel loops
SmallLoopPix == 3

(***************************************************************************)
(* Program constants.                                                      *)
(***************************************************************************)
MAX_NUM_SCALES == 12
FSIZE == 5
\* pixels hold 4 floats: process() sets ch = 4
CH == 4
\* recovery is skipped unless more than 9 pixels are clipped
MIN_CLIPPED == 9
\* pixels with argument >= 4 are not counted as clipped
ARG_CUTOFF == 4

(***************************************************************************)
(* Exact rational arithmetic standing for float arithmetic.                *)
(***************************************************************************)
Abs(x) == IF x < 0 THEN -x ELSE x

RECURSIVE Gcd(_, _)
Gcd(a, b) == IF b = 0 THEN a ELSE Gcd(b, a % b)

NaN == <<0, 0>>
IsNaN(q) == q[2] = 0

Rat(n, d) ==
  IF d = 0 THEN NaN
  ELSE LET g == Gcd(Abs(n), Abs(d))
           s == IF d < 0 THEN -1 ELSE 1
       IN  <<s * (n \div g), (s * d) \div g>>

R(n) == <<n, 1>>
\* sums and comparisons go through the least common denominator
RAdd(p, q) ==
  IF IsNaN(p) \/ IsNaN(q) THEN NaN
  ELSE LET g == Gcd(p[2], q[2])
       IN  Rat(p[1] * (q[2] \div g) + q[1] * (p[2] \div g), (p[2] \div g) * q[2])
RSub(p, q) == RAdd(p, IF IsNaN(q) THEN NaN ELSE <<-q[1], q[2]>>)
\* common factors are cancelled crosswise first, to keep the products small
RMul(p, q) ==
  IF IsNaN(p) \/ IsNaN(q) THEN NaN
  ELSE LET g1 == Gcd(Abs(p[1]), q[2])
           g2 == Gcd(Abs(q[1]), p[2])
       IN  IF g1 = 0 \/ g2 = 0 THEN NaN
           ELSE Rat((p[1] \div g1) * (q[1] \div g2), (p[2] \div g2) * (q[2] \div g1))
\* only 0/0 occurs among the divisions by zero of the model: it is NaN
RDiv(p, q) ==
  IF IsNaN(p) \/ IsNaN(q) \/ q[1] = 0 THEN NaN
  ELSE RMul(p, IF q[1] < 0 THEN <<-q[2], -q[1]>> ELSE <<q[2], q[1]>>)
RLess(p, q) ==
  /\ ~IsNaN(p) /\ ~IsNaN(q)
  /\ LET g == Gcd(p[2], q[2]) IN p[1] * (q[2] \div g) < q[1] * (p[2] \div g)
RLeq(p, q) ==
  /\ ~IsNaN(p) /\ ~IsNaN(q)
  /\ LET g == Gcd(p[2], q[2]) IN p[1] * (q[2] \div g) <= q[1] * (p[2] \div g)
fabsf(p) == <<Abs(p[1]), p[2]>>
\* fminf / fmaxf: the file is built with finite-math-only, under which a call
\* with a NaN operand returns one of its two operands, the first or the second
\* according to the instructions the build chose for that call (a compare and
\* select, a minss / maxss with the operands in either order, a vector lane);
\* picks_first is that choice, made for each call on its own
fminf(p, q, picks_first) ==
  IF IsNaN(p) \/ IsNaN(q)
    THEN IF picks_first THEN p ELSE q
    ELSE IF RLess(q, p) THEN q ELSE p
fmaxf(p, q, picks_first) ==
  IF IsNaN(p) \/ IsNaN(q)
    THEN IF picks_first THEN p ELSE q
    ELSE IF RLess(p, q) THEN q ELSE p
\* the choices of a routine with n such calls
NanChoices(n) == [1..n -> BOOLEAN]
\* the choices that bear on the result: without a NaN they all give the same value
NanChoicesOn(n, unordered) == IF unordered THEN NanChoices(n) ELSE {[m \in 1..n |-> FALSE]}
\* a chain such as fmaxf(fmaxf(a, b), c): fast-math lets the build group the
\* operands of the chain as it likes.  A grouping is <<i>> for operand i, or
\* <<picks_first, l, r>> for a call on the results of the groupings l and r
RECURSIVE Groupings(_)
Groupings(operands) ==
  IF Cardinality(operands) = 1 THEN {<<n>> : n \in operands}
  ELSE LET first == CHOOSE n \in operands : \A m \in operands : n <= m
       IN  UNION {{<<picks_first, l, r>> : picks_first \in BOOLEAN, l \in Groupings(left),
                                            r \in Groupings(operands \ left)} :
                    left \in {some \in SUBSET operands : first \in some /\ some # operands}}
\* the grouping the source writes, f(f(f(1, 2), 3), ...), each call picking its
\* second operand
RECURSIVE SourceGrouping(_)
SourceGrouping(n) == IF n = 1 THEN <<1>> ELSE <<FALSE, SourceGrouping(n - 1), <<n>>>>
\* the groupings that bear on the result: without a NaN among the operands they
\* all give the same value
GroupingsOn(x) ==
  IF \E n \in 1..Len(x) : IsNaN(x[n]) THEN Groupings(1..Len(x)) ELSE {SourceGrouping(Len(x))}
RECURSIVE fminf_grouped(_, _)
fminf_grouped(x, grouping) ==
  IF Len(grouping) = 1 THEN x[grouping[1]]
  ELSE fminf(fminf_grouped(x, grouping[2]), fminf_grouped(x, grouping[3]), grouping[1])
RECURSIVE fmaxf_grouped(_, _)
fmaxf_grouped(x, grouping) ==
  IF Len(grouping) = 1 THEN x[grouping[1]]
  ELSE fmaxf(fmaxf_grouped(x, grouping[2]), fmaxf_grouped(x, grouping[3]), grouping[1])

RECURSIVE Pow2(_)
Pow2(k) == IF k <= 0 THEN 1 ELSE 2 * Pow2(k - 1)

\* floorf of a rational
Floor(a) == IF a[1] >= 0 THEN a[1] \div a[2] ELSE -(((-a[1]) + a[2] - 1) \div a[2])

\* exp2f: exact on the integers; between two integers n and n + 1 the value is
\* taken on the chord 2^n * (1 + (a - n)) with a - n kept to 1/32, within 6.2 %
\* of 2^a.  Below 2^-20 the result is 0, less than 1e-6 away
exp2f(a) ==
  LET n == Floor(a)
      f == Rat(Floor(RMul(RAdd(a, R(-n)), R(32))), 32)
  IN  IF IsNaN(a) THEN NaN
      ELSE IF n < -20 THEN R(0)
      ELSE RMul(IF n >= 0 THEN <<Pow2(n), 1>> ELSE <<1, Pow2(-n)>>, RAdd(R(1), f))

\* the largest r with r * r <= n
RECURSIVE ISqrtFrom(_, _)
ISqrtFrom(n, r) == IF (r + 1) * (r + 1) > n THEN r ELSE ISqrtFrom(n, r + 1)
RECURSIVE ISqrtBetween(_, _, _)
ISqrtBetween(n, lo, hi) ==
  IF lo >= hi THEN lo
  ELSE LET mid == (lo + hi + 1) \div 2
       IN  IF mid * mid <= n THEN ISqrtBetween(n, mid, hi) ELSE ISqrtBetween(n, lo, mid - 1)
ISqrt(n) == IF n < 1024 THEN ISqrtFrom(n, 0) ELSE ISqrtBetween(n, 32, 46340)

\* sqrtf: exact on the quotients of perfect squares; on the other values below
\* 2048, rounded down to a multiple of 2^-10; a fraction n / (2^20 * d) is
\* taken as sqrtf(n / d) / 2^10, which keeps that precision on the small values
RECURSIVE sqrtf(_)
sqrtf(p) ==
  LET a == ISqrt(p[1])
      b == ISqrt(p[2])
  IN  IF a * a = p[1] /\ b * b = p[2] THEN <<a, b>>
      ELSE IF p[1] > 0 /\ p[1] < 2048 /\ p[2] % 1048576 = 0
        THEN RDiv(sqrtf(Rat(p[1], p[2] \div 1048576)), R(1024))
      ELSE Rat(ISqrt((p[1] * 1048576) \div p[2]), 1024)

sqf(x) == RMul(x, x)

(***************************************************************************)
(* Pixels and buffers.  A pixel is <<R, G, B, alpha>>; a buffer of pixels  *)
(* is a sequence indexed by k / ch + 1.                                    *)
(***************************************************************************)
NPix == MaxPix
Pixels == 1..NPix

Px(r, g, b, a) == <<R(r), R(g), R(b), a>>

(***************************************************************************)
(* mask_clipped_pixels                                                     *)
(***************************************************************************)
pix_argument(pix, normalize, feathering) ==
  LET pix_max == sqrtf(RAdd(RAdd(sqf(pix[1]), sqf(pix[2])), sqf(pix[3])))
  IN  RAdd(RMul(RSub(R(0), pix_max), normalize), feathering)

sigmoid_weight(argument) == RDiv(R(1), RAdd(R(1), exp2f(argument)))

mask_weights(inbuf, normalize, feathering) ==
  [k \in 1..Len(inbuf) |-> sigmoid_weight(pix_argument(inbuf[k], normalize, feathering))]

IsClippedJustAbove(argument) == RLeq(argument, R(ARG_CUTOFF))
IsClipped(argument) == RLess(argument, R(ARG_CUTOFF))

clipped_count(inbuf, normalize, feathering) ==
  Cardinality({k \in 1..Len(inbuf) : IsClipped(pix_argument(inbuf[k], normalize, feathering))})

WorthItAtLeast(clipped) == clipped >= MIN_CLIPPED
WorthIt(clipped) == clipped > MIN_CLIPPED

\* the value mask_clipped_pixels returns
mask_clipped_pixels(inbuf, normalize, feathering) ==
  WorthIt(clipped_count(inbuf, normalize, feathering))

(***************************************************************************)
(* get_scales                                                              *)
(***************************************************************************)
RECURSIVE FloorLog2Up(_, _, _)
FloorLog2Up(n, d, k) == IF 2 * Pow2(k) * d > n THEN k ELSE FloorLog2Up(n, d, k + 1)
RECURSIVE FloorLog2Down(_, _, _)
FloorLog2Down(n, d, k) == IF n * Pow2(k) >= d THEN -k ELSE FloorLog2Down(n, d, k + 1)
\* floorf(log2f(q)) for q > 0
FloorLog2(q) == IF q[1] >= q[2] THEN FloorLog2Up(q[1], q[2], 0) ELSE FloorLog2Down(q[1], q[2], 1)

\* (size_t) of a non-negative float: truncation
Trunc(q) == q[1] \div q[2]

\* what converting floorf(log2f(x)) to int can give when x <= 0, where log2f is
\* -inf or NaN and the conversion is undefined: any int
IntOfNonFinite == {-2147483647 - 1, -1, 0, 1, MAX_NUM_SCALES + 1, 2147483647}

CLAMP_low_only(x, low, high) == IF x < low THEN low ELSE x
CLAMP(x, low, high) == IF x > high THEN high ELSE IF x < low THEN low ELSE x

scales_unclamped(roi_scale, iscale, buf_w, buf_h) ==
  LET scale == RDiv(roi_scale, iscale)
      hs == RMul(R(buf_h), iscale)
      ws == RMul(R(buf_w), iscale)
      size == Trunc(IF RLess(ws, hs) THEN hs ELSE ws)
      x == RSub(RDiv(RMul(RMul(R(2), R(size)), scale), R((FSIZE - 1) * FSIZE)), R(1))
  IN  IF RLess(R(0), x) THEN {FloorLog2(x)} ELSE IntOfNonFinite

\* the set of values get_scales can return (one value unless the log is undefined)
get_scales(roi_scale, iscale, buf_w, buf_h) ==
  {CLAMP(sc, 1, MAX_NUM_SCALES) : sc \in scales_unclamped(roi_scale, iscale, buf_w, buf_h)}

(***************************************************************************)
(* State of one process() invocation.                                      *)
(***************************************************************************)
VARIABLES
  pc,                 \* the statement of process / reconstruct_highlights about to run
  piece,              \* piece->colors, the pipe's type and mask_display, buf_in, iscale
  self,               \* self->dev->gui_attached and g->show_mask
  data,               \* piece->data: the committed dt_iop_filmicrgb_data_t
  roi_in,             \* roi_in->scale and roi_in->height
  roi_out,            \* roi_out->width and roi_out->height
  ivoid,              \* the caller's input buffer
  ovoid,              \* the caller's output buffer
  heap,               \* each scratch pointer: "none", "null", "live", "freed" or "freed_twice"
  mask,               \* the contents of the mask buffer
  in,                 \* the buffer process hands to the tone mapper
  recover_highlights, \* the value mask_clipped_pixels returned
  success_1,
  success_2,
  i,                  \* the refinement iteration counter
  rh,                 \* the frame of the running reconstruct_highlights call
  logged,             \* the messages given to dt_control_log
  ran,                \* the routines that have run
  alloc_failed,       \* the kinds of allocation that failed in this invocation
  fault,              \* "none", or the invalid memory access that ended the invocation
  tm_in,              \* the buffer the tone mapper was given, "none" before it runs
  hist                \* the calls made: the steps of the running scale, the scales started,
                      \* the refinement calls, the iteration that last wrote norms, the
                      \* last routine call, the pixel count given to the tone mapper

(***************************************************************************)
(* State of a get_scales call followed by the scale loop of                *)
(* reconstruct_highlights (its tap steps only).                            *)
(***************************************************************************)
VARIABLES
  gs                  \* the arguments, the returned scale count, the loop's s and mult

scaleVars == <<gs>>

(***************************************************************************)
(* State of a darkroom session editing the module's parameters.            *)
(***************************************************************************)
VARIABLES
  p,                  \* self->params: the dt_iop_filmicrgb_params_t being edited
  default_params,     \* self->default_params
  committed,          \* piece->data: not allocated, or what the last commit_params wrote
  gui_reset,          \* darktable.gui->reset
  edits               \* the number of edits made so far in the session

guiVars == <<p, default_params, committed, gui_reset, edits>>

(***************************************************************************)
(* State of one reconstruct_highlights call on pixel values, past its      *)
(* allocations.                                                            *)
(***************************************************************************)
VARIABLES
  wv                  \* the call's arguments, its buffers and its position

reconVars == <<wv>>

(***************************************************************************)
(* State of one commit_params call on the curve parameters, followed by    *)
(* the evaluation of the committed spline.                                 *)
(***************************************************************************)
VARIABLES
  cv                  \* the parameters, the committed data and spline, the values read off it

curveVars == <<cv>>

(***************************************************************************)
(* State of two inpaint_noise calls on the same arguments, each run by its *)
(* own team of threads.                                                    *)
(***************************************************************************)
VARIABLES
  nz                  \* the arguments and, for each call, its threads and its output

noiseVars == <<nz>>

(***************************************************************************)
(* State of the per-pixel routines applied to one buffer: the norms, the   *)
(* ratios and the mask weights.                                            *)
(***************************************************************************)
VARIABLES
  px                  \* the buffer, the committed parameters and the routines' outputs

pixelVars == <<px>>

(***************************************************************************)
(* State of one blur pass: the pixel being filtered and the taps read.     *)
(***************************************************************************)
VARIABLES
  tp                  \* the pass, its dimensions and step, the pixel, the tap and the index read

tapVars == <<tp>>

(***************************************************************************)
(* State of one parallel per-pixel loop run by a team of threads.          *)
(***************************************************************************)
VARIABLES
  lp                  \* the routine, the team, the iterations done, the writes, the counters

loopVars == <<lp>>

(***************************************************************************)
(* State of the mask display switch of a darkroom session.                 *)
(***************************************************************************)
VARIABLES
  sm                  \* g->show_mask, the reset counter, the focus, what process last output

showMaskVars == <<sm>>

(***************************************************************************)
(* State of one tone-mapping call on one buffer.                           *)
(***************************************************************************)
VARIABLES
  tm                  \* the buffer, the committed data, the routine and its output

toneVars == <<tm>>

\* the inputs of the invocation: no statement of process assigns them
env == <<piece, self, data, roi_in, roi_out, ivoid>>

\* what get_scales, the parameter edits and the reconstruction each leave alone
scalesFrame == <<pc, env, ovoid, heap, mask, in, recover_highlights, success_1, success_2, i, rh,
                 logged, ran, alloc_failed, fault, tm_in, hist, guiVars, reconVars,
                 curveVars, noiseVars, pixelVars,
                 tapVars, loopVars, showMaskVars, toneVars>>
guiFrame == <<pc, env, ovoid, heap, mask, in, recover_highlights, success_1, success_2, i, rh,
              logged, ran, alloc_failed, fault, tm_in, hist, scaleVars, reconVars,
              curveVars, noiseVars, pixelVars,
              tapVars, loopVars, showMaskVars, toneVars>>
reconFrame == <<pc, env, ovoid, heap, mask, in, recover_highlights, success_1, success_2, i, rh,
                logged, ran, alloc_failed, fault, tm_in, hist, scaleVars, guiVars,
                curveVars, noiseVars, pixelVars,
                tapVars, loopVars, showMaskVars, toneVars>>
\* what the curve, the noise and the per-pixel routines each leave alone
curveFrame == <<pc, env, ovoid, heap, mask, in, recover_highlights, success_1, success_2, i, rh,
                logged, ran, alloc_failed, fault, tm_in, hist, scaleVars, guiVars, reconVars,
                noiseVars, pixelVars,
                tapVars, loopVars, showMaskVars, toneVars>>
noiseFrame == <<pc, env, ovoid, heap, mask, in, recover_highlights, success_1, success_2, i, rh,
                logged, ran, alloc_failed, fault, tm_in, hist, scaleVars, guiVars, reconVars,
                curveVars, pixelVars,
                tapVars, loopVars, showMaskVars, toneVars>>
pixelFrame == <<pc, env, ovoid, heap, mask, in, recover_highlights, success_1, success_2, i, rh,
                logged, ran, alloc_failed, fault, tm_in, hist, scaleVars, guiVars, reconVars,
                curveVars, noiseVars,
                tapVars, loopVars, showMaskVars, toneVars>>
\* what the blur taps, the parallel loops, the mask switch and the tone mappers each leave alone
tapFrame == <<pc, env, ovoid, heap, mask, in, recover_highlights, success_1, success_2, i, rh,
              logged, ran, alloc_failed, fault, tm_in, hist,
              scaleVars, guiVars, reconVars, curveVars, noiseVars,
              pixelVars, loopVars, showMaskVars, toneVars>>
loopFrame == <<pc, env, ovoid, heap, mask, in, recover_highlights, success_1, success_2, i, rh,
               logged, ran, alloc_failed, fault, tm_in, hist,
               scaleVars, guiVars, reconVars, curveVars, noiseVars,
               pixelVars, tapVars, showMaskVars, toneVars>>
showMaskFrame == <<pc, env, ovoid, heap, mask, in, recover_highlights, success_1, success_2, i, rh,
                   logged, ran, alloc_failed, fault, tm_in, hist,
                   scaleVars, guiVars, reconVars, curveVars, noiseVars,
                   pixelVars, tapVars, loopVars, toneVars>>
toneFrame == <<pc, env, ovoid, heap, mask, in, recover_highlights, success_1, success_2, i, rh,
               logged, ran, alloc_failed, fault, tm_in, hist,
               scaleVars, guiVars, reconVars, curveVars, noiseVars,
               pixelVars, tapVars, loopVars, showMaskVars>>

\* what no statement of process touches
procFrame == <<env, scaleVars, guiVars, reconVars, curveVars, noiseVars, pixelVars,
              tapVars, loopVars, showMaskVars, toneVars>>
\* the same and the record of calls, for the statements that make no recorded call
procRest == <<procFrame, hist>>

procVars == <<pc, env, ovoid, heap, mask, in,
              recover_highlights, success_1, success_2, i, rh, logged, ran,
              alloc_failed, fault, tm_in, hist>>

ProcessBufs == {"mask", "reconstructed", "inpainted", "norms", "ratios"}
ScaleBufs == {"LF_even", "LF_odd", "HF_RGB", "HF_grey", "temp"}
AllBufs == ProcessBufs \cup ScaleBufs

MSG_RGB_ONLY == "filmic works only on RGB input"
MSG_ALLOC == "filmic highlights reconstruction failed to allocate memory, check your RAM settings"

DT_FILMIC_RECONSTRUCT_RGB == "RGB"
DT_FILMIC_RECONSTRUCT_RATIOS == "RATIOS"

\* dt_iop_filmicrgb_methods_type_t
DT_FILMIC_METHOD_NONE == 0
DT_FILMIC_METHOD_MAX_RGB == 1
DT_FILMIC_METHOD_LUMINANCE == 2
DT_FILMIC_METHOD_POWER_NORM == 3
DT_FILMIC_METHOD_EUCLIDEAN_NORM == 4

\* the pipe types: piece->pipe->type tested against DT_DEV_PIXELPIPE_FULL and _FAST
PipeTypes == { [full |-> TRUE, fast |-> FALSE],
               [full |-> FALSE, fast |-> FALSE],
               [full |-> FALSE, fast |-> TRUE] }

\* input images: n pixels bright enough to count as clipped, one pixel whose
\* argument is exactly the cutoff, the others dark; alpha varies with the pixel
BrightPx(k) == Px(3, 4, 12, Rat(k % 3, 2))
EdgePx(k) == Px(4, 8, 8, Rat(k % 3, 2))
DarkPx(k) == Px(1, 2, 2, Rat(k % 3, 2))
Image(n) == [k \in Pixels |-> IF k <= n THEN BrightPx(k) ELSE IF k = n + 1 THEN EdgePx(k) ELSE DarkPx(k)]
Images == {Image(n) : n \in {0, MIN_CLIPPED, MIN_CLIPPED + 1, NPix}}

\* the output buffer as the caller hands it over: colour channels not yet
\* written by this module, alpha whatever the buffer held
OutInit(a) == [k \in Pixels |-> [src |-> "caller", w |-> R(0), a |-> a]]

OutInits == {OutInit(Rat(3, 4))}

NoFrame == [variant |-> "none", input |-> "none", scales |-> 0, s |-> 0,
            success |-> TRUE, wrote |-> FALSE, detail |-> "none", LF |-> "none"]

EmptyHeap == [b \in AllBufs |-> "none"]

\* no call recorded yet
\* the record of one routine call
Step(name, reads, writes) == [routine |-> name, reads |-> reads, writes |-> writes]

NoStep == [routine |-> "none", reads |-> {}, writes |-> {}]
NoCalls == [steps |-> <<>>, scales |-> <<>>, refine |-> <<>>, norms_of |-> -1,
            last |-> NoStep, pixels |-> -1]

ProcInit ==
  /\ pc = "entry"
  /\ piece \in [colors : {3, 4}, type : PipeTypes, mask_display : BOOLEAN,
                buf_in : {[width |-> 40, height |-> 30], [width |-> 100, height |-> 60]},
                iscale : {R(1)}]
  /\ self \in [gui_attached : BOOLEAN, show_mask : BOOLEAN]
  /\ data \in [reconstruct_feather : {R(16)}, reconstruct_threshold : {R(16)},
               high_quality_reconstruction : 0..MaxHQ,
               preserve_color : {0, 3}, version : {0, 1}]
  /\ roi_out = [width |-> 1, height |-> NPix]
  \* the module defines no modify_roi_in and no modify_roi_out: the pipeline
  \* hands process an input region of the geometry of the output region
  /\ roi_in = [scale |-> R(1), height |-> roi_out.height]
  /\ ivoid \in Images
  /\ ovoid \in OutInits
  /\ heap = EmptyHeap
  /\ mask = [k \in Pixels |-> R(0)]
  /\ in = "ivoid"
  /\ recover_highlights = FALSE
  /\ success_1 = TRUE
  /\ success_2 = TRUE
  /\ i = 0
  /\ rh = NoFrame
  /\ logged = {}
  /\ ran = {}
  /\ alloc_failed = {}
  /\ fault = "none"
  /\ tm_in = "none"
  /\ hist = NoCalls

\* a routine that reads or writes through the pointers `bufs`
BadAccess(bufs) == \E b \in bufs \cap AllBufs : heap[b] # "live"
FaultOf(bufs) ==
  IF \E b \in bufs \cap AllBufs : heap[b] \in {"null", "none"} THEN "null_deref" ELSE "use_after_free"

\* the invocation dies on an invalid access
Crash(bufs) ==
  /\ pc' = "crashed"
  /\ fault' = FaultOf(bufs)
  /\ UNCHANGED <<procRest, ovoid, heap, mask, in,
                 recover_highlights, success_1, success_2, i, rh, logged, ran, alloc_failed,
                 tm_in>>

\* dt_alloc_sse_ps: the pointer is live, or NULL when the allocation fails
Alloc(b, ok) == [heap EXCEPT ![b] = IF ok THEN "live" ELSE "null"]
\* a release that is left out
Forget(h, b) == h
\* dt_free_align: free(NULL) does nothing, a second release of a pointer is recorded
Free(h, b) ==
  [h EXCEPT ![b] = IF @ = "live" THEN "freed" ELSE IF @ = "freed" THEN "freed_twice" ELSE @]
\* if(b) dt_free_align(b)
FreeIfSet(h, b) == IF h[b] = "null" THEN h ELSE Free(h, b)

(***************************************************************************)
(* process: the channel guard, the mask, the mask display                  *)
(***************************************************************************)
ColorsAlwaysOk(colors) == TRUE
ColorsOk(colors) == colors = CH

ChannelGuard ==
  /\ pc = "entry"
  /\ IF ~ColorsOk(piece.colors)
       THEN /\ logged' = logged \cup {MSG_RGB_ONLY}
            /\ pc' = "returned"
       ELSE /\ pc' = "alloc_mask"
            /\ UNCHANGED logged
  /\ UNCHANGED <<procRest, ovoid, heap, mask, in,
                 recover_highlights, success_1, success_2, i, rh, ran, alloc_failed, fault, tm_in>>

AllocMask ==
  /\ pc = "alloc_mask"
  /\ \E ok \in BOOLEAN :
       /\ heap' = Alloc("mask", ok)
       /\ alloc_failed' = IF ok THEN alloc_failed ELSE alloc_failed \cup {"mask"}
  /\ pc' = "mask_clipped_pixels"
  /\ UNCHANGED <<procRest, ovoid, mask, in,
                 recover_highlights, success_1, success_2, i, rh, logged, ran, fault, tm_in>>

MaskClippedPixels ==
  /\ pc = "mask_clipped_pixels"
  /\ IF BadAccess({"mask"})
       THEN Crash({"mask"})
       ELSE LET normalize == RDiv(data.reconstruct_feather, data.reconstruct_threshold)
            IN  /\ mask' = mask_weights(ivoid, normalize, data.reconstruct_feather)
                /\ recover_highlights' = mask_clipped_pixels(ivoid, normalize, data.reconstruct_feather)
                /\ ran' = ran \cup {"mask_clipped_pixels"}
                /\ hist' = [hist EXCEPT !.last = Step("mask_clipped_pixels", {in}, {"mask"})]
                /\ pc' = "display_test"
                /\ UNCHANGED <<procFrame, ovoid, heap, in,
                               success_1, success_2, i, rh, logged, alloc_failed, fault, tm_in>>

\* display_mask: out[k] = mask[k / ch] for every float of the pixel, alpha included
display_mask(m) == [k \in Pixels |-> [src |-> "display_mask", w |-> m[k], a |-> m[k]]]

ShowMaskTestNotFull(gui_attached, full, show_mask) == gui_attached /\ ~full /\ show_mask

ShowMaskTest(gui_attached, full, show_mask) == gui_attached /\ full /\ show_mask

DisplayMask ==
  /\ pc = "display_test"
  /\ IF ShowMaskTest(self.gui_attached, piece.type.full, self.show_mask) /\ heap["mask"] = "live"
       THEN /\ ovoid' = display_mask(mask)
            /\ heap' = Free(heap, "mask")
            /\ ran' = ran \cup {"display_mask"}
            /\ hist' = [hist EXCEPT !.last = Step("display_mask", {"mask"}, {"ovoid"})]
            /\ pc' = "returned"
       ELSE /\ pc' = "alloc_reconstructed"
            /\ UNCHANGED <<ovoid, heap, ran, hist>>
  /\ UNCHANGED <<procFrame, mask, in,
                 recover_highlights, success_1, success_2, i, rh, logged, alloc_failed, fault, tm_in>>

(***************************************************************************)
(* process: the reconstruction block                                       *)
(***************************************************************************)
AllocReconstructed ==
  /\ pc = "alloc_reconstructed"
  /\ \E ok \in BOOLEAN :
       /\ heap' = Alloc("reconstructed", ok)
       /\ alloc_failed' = IF ok THEN alloc_failed ELSE alloc_failed \cup {"reconstructed"}
  /\ pc' = "recover_test"
  /\ UNCHANGED <<procRest, ovoid, mask, in,
                 recover_highlights, success_1, success_2, i, rh, logged, ran, fault, tm_in>>

\* the same test without !run_fast
RecoverCondIgnoringFast(run_fast, recover, mask_ptr, reconstructed_ptr) ==
  recover /\ mask_ptr = "live" /\ reconstructed_ptr = "live"

\* if(!run_fast && recover_highlights && mask && reconstructed)
RecoverCond(run_fast, recover, mask_ptr, reconstructed_ptr) ==
  ~run_fast /\ recover /\ mask_ptr = "live" /\ reconstructed_ptr = "live"

RecoverTest ==
  /\ pc = "recover_test"
  /\ pc' = IF RecoverCond(piece.type.fast, recover_highlights, heap["mask"], heap["reconstructed"])
             THEN "alloc_inpainted" ELSE "free_mask"
  /\ UNCHANGED <<procRest, ovoid, heap, mask, in,
                 recover_highlights, success_1, success_2, i, rh, logged, ran, alloc_failed, fault, tm_in>>

AllocInpainted ==
  /\ pc = "alloc_inpainted"
  /\ \E ok \in BOOLEAN :
       /\ heap' = Alloc("inpainted", ok)
       /\ alloc_failed' = IF ok THEN alloc_failed ELSE alloc_failed \cup {"inpainted"}
  /\ pc' = "inpaint_noise"
  /\ UNCHANGED <<procRest, ovoid, mask, in,
                 recover_highlights, success_1, success_2, i, rh, logged, ran, fault, tm_in>>

\* inpaint_noise(in, mask, inpainted, ...): reads in and mask, writes inpainted
InpaintNoise ==
  /\ pc = "inpaint_noise"
  /\ IF BadAccess({"mask", "inpainted"})
       THEN Crash({"mask", "inpainted"})
       ELSE /\ ran' = ran \cup {"inpaint_noise"}
            /\ hist' = [hist EXCEPT !.last = Step("inpaint_noise", {in, "mask"}, {"inpainted"})]
            /\ pc' = "call_pass1"
            /\ UNCHANGED <<procFrame, ovoid, heap, mask, in,
                           recover_highlights, success_1, success_2, i, rh, logged,
                           alloc_failed, fault, tm_in>>

\* a call that reconstructs in place: reconstruct_highlights(reconstructed, mask, reconstructed, ...)
EnterInPlace(input, variant) ==
  [variant |-> variant, input |-> "reconstructed", scales |-> 0, s |-> 0,
   success |-> TRUE, wrote |-> FALSE, detail |-> "none", LF |-> "none"]

\* the call reconstruct_highlights(input, mask, reconstructed, variant, ...)
Enter(input, variant) ==
  [variant |-> variant, input |-> input, scales |-> 0, s |-> 0,
   success |-> TRUE, wrote |-> FALSE, detail |-> "none", LF |-> "none"]

CallPass1 ==
  /\ pc = "call_pass1"
  /\ rh' = Enter("inpainted", DT_FILMIC_RECONSTRUCT_RGB)
  /\ pc' = "rh_alloc"
  /\ UNCHANGED <<procRest, ovoid, heap, mask, in,
                 recover_highlights, success_1, success_2, i, logged, ran, alloc_failed, fault, tm_in>>

(***************************************************************************)
(* reconstruct_highlights                                                  *)
(***************************************************************************)
\* if(!LF_even || !LF_odd || !HF_RGB || !HF_grey || !temp)
AnyScaleBufNull(failing) == failing # {}

RH_Alloc ==
  /\ pc = "rh_alloc"
  /\ \E sc \in get_scales(roi_in.scale, piece.iscale, piece.buf_in.width, piece.buf_in.height),
        failing \in SUBSET ScaleBufs :
       /\ heap' = [b \in AllBufs |-> IF b \in ScaleBufs
                                       THEN (IF b \in failing THEN "null" ELSE "live")
                                       ELSE heap[b]]
       /\ alloc_failed' = IF failing = {} THEN alloc_failed ELSE alloc_failed \cup {"scale"}
       /\ IF AnyScaleBufNull(failing)
            THEN /\ logged' = logged \cup {MSG_ALLOC}
                 /\ rh' = [rh EXCEPT !.scales = sc, !.success = FALSE]
                 /\ pc' = "rh_error"
            ELSE /\ rh' = [rh EXCEPT !.scales = sc]
                 /\ pc' = "rh_init"
                 /\ UNCHANGED logged
  /\ UNCHANGED <<procRest, ovoid, mask, in,
                 recover_highlights, success_1, success_2, i, ran, fault, tm_in>>

\* a per-pixel or blur routine of reconstruct_highlights: it reads `reads`,
\* writes `writes`, and control moves on to `next`
RH_Routine(name, reads, writes, next) ==
  IF BadAccess(reads \cup writes)
    THEN Crash(reads \cup writes)
    ELSE /\ ran' = ran \cup {name}
         /\ rh' = [rh EXCEPT !.wrote = rh.wrote \/ "reconstructed" \in writes]
         /\ hist' = [hist EXCEPT !.steps = Append(@, Step(name, reads, writes)),
                                 !.last = Step(name, reads, writes)]
         /\ pc' = next
         /\ UNCHANGED <<procFrame, ovoid, heap, mask, in,
                        recover_highlights, success_1, success_2, i, logged,
                        alloc_failed, fault, tm_in>>

RH_Init ==
  /\ pc = "rh_init"
  /\ RH_Routine("init_reconstruct", {rh.input, "mask"}, {"reconstructed"}, "rh_scale")

\* the head of the scale loop: the loop test and the choice of detail and LF
DetailOf(s, input) == IF s = 0 THEN input ELSE IF s % 2 # 0 THEN "LF_odd" ELSE "LF_even"
LFOfOddSlot(s) == "LF_odd"
LFOf(s) == IF s = 0 THEN "LF_odd" ELSE IF s % 2 # 0 THEN "LF_even" ELSE "LF_odd"

RH_Scale ==
  /\ pc = "rh_scale"
  /\ IF rh.s < rh.scales
       THEN /\ rh' = [rh EXCEPT !.detail = DetailOf(rh.s, rh.input), !.LF = LFOf(rh.s)]
            /\ hist' = [hist EXCEPT !.steps = <<>>, !.scales = Append(@, rh.s)]
            /\ pc' = "rh_blur_v_lf"
       ELSE /\ pc' = "rh_error"
            /\ UNCHANGED <<rh, hist>>
  /\ UNCHANGED <<procFrame, ovoid, heap, mask, in,
                 recover_highlights, success_1, success_2, i, logged, ran, alloc_failed, fault, tm_in>>

RH_BlurVerticalLF ==
  /\ pc = "rh_blur_v_lf"
  /\ RH_Routine("blur_2D_Bspline_vertical", {rh.detail}, {"temp"}, "rh_blur_h_lf")

RH_BlurHorizontalLF ==
  /\ pc = "rh_blur_h_lf"
  /\ RH_Routine("blur_2D_Bspline_horizontal", {"temp"}, {rh.LF}, "rh_detail")

\* the routines the variant selects
wavelets_detail_level(variant) ==
  IF variant = DT_FILMIC_RECONSTRUCT_RGB THEN "wavelets_detail_level_RGB" ELSE "wavelets_detail_level_ratios"
wavelets_reconstruct(variant) ==
  IF variant = DT_FILMIC_RECONSTRUCT_RGB THEN "wavelets_reconstruct_RGB" ELSE "wavelets_reconstruct_ratios"

\* the high-frequency extraction left out
RH_DetailLevelSkipped ==
  /\ pc = "rh_detail"
  /\ pc' = "rh_blur_v_hf"
  /\ UNCHANGED <<procRest, ovoid, heap, mask, in, recover_highlights, success_1, success_2, i, rh,
                 logged, ran, alloc_failed, fault, tm_in>>

RH_DetailLevel ==
  /\ pc = "rh_detail"
  /\ RH_Routine(wavelets_detail_level(rh.variant), {rh.detail, rh.LF}, {"HF_RGB", "HF_grey"},
                "rh_blur_v_hf")

RH_BlurVerticalHF ==
  /\ pc = "rh_blur_v_hf"
  /\ RH_Routine("blur_2D_Bspline_vertical", {"HF_RGB"}, {"temp"}, "rh_blur_h_hf")

RH_BlurHorizontalHF ==
  /\ pc = "rh_blur_h_hf"
  /\ RH_Routine("blur_2D_Bspline_horizontal", {"temp"}, {"HF_RGB"}, "rh_reconstruct")

RH_Reconstruct ==
  /\ pc = "rh_reconstruct"
  /\ IF BadAccess({"HF_RGB", rh.LF, "HF_grey", "mask", "reconstructed"})
       THEN Crash({"HF_RGB", rh.LF, "HF_grey", "mask", "reconstructed"})
       ELSE /\ ran' = ran \cup {wavelets_reconstruct(rh.variant)}
            /\ rh' = [rh EXCEPT !.wrote = TRUE, !.s = rh.s + 1]
            /\ hist' = [hist EXCEPT !.steps = Append(@, Step(wavelets_reconstruct(rh.variant),
                                                             {"HF_RGB", rh.LF, "HF_grey", "mask"},
                                                             {"reconstructed"})),
                                    !.last = Step(wavelets_reconstruct(rh.variant),
                                                  {"HF_RGB", rh.LF, "HF_grey", "mask"},
                                                  {"reconstructed"})]
            /\ pc' = "rh_scale"
            /\ UNCHANGED <<procFrame, ovoid, heap, mask, in,
                           recover_highlights, success_1, success_2, i, logged,
                           alloc_failed, fault, tm_in>>

\* error: the scale buffers are released and the call returns `success`
RH_Return ==
  /\ pc = "rh_error"
  /\ heap' = FreeIfSet(FreeIfSet(FreeIfSet(FreeIfSet(FreeIfSet(heap, "temp"), "LF_even"), "LF_odd"),
                                 "HF_RGB"), "HF_grey")
  /\ IF rh.variant = DT_FILMIC_RECONSTRUCT_RGB
       THEN /\ success_1' = rh.success
            /\ pc' = "free_inpainted"
            /\ UNCHANGED success_2
       ELSE /\ success_2' = (success_2 /\ rh.success)
            /\ pc' = "restore_ratios"
            /\ UNCHANGED success_1
  /\ UNCHANGED <<procRest, ovoid, mask, in,
                 recover_highlights, i, rh, logged, ran, alloc_failed, fault, tm_in>>

(***************************************************************************)
(* process: after the first pass, the refinement iterations                *)
(***************************************************************************)
\* if(data->high_quality_reconstruction > 0 && success_1)
RefineCond(hq, s1) == hq > 0 /\ s1

\* reconstructed released together with inpainted
FreeInpaintedAndReconstructed ==
  /\ pc = "free_inpainted"
  /\ heap' = Free(Free(heap, "inpainted"), "reconstructed")
  /\ pc' = IF RefineCond(data.high_quality_reconstruction, success_1)
             THEN "alloc_norms_ratios" ELSE "select_input"
  /\ UNCHANGED <<procRest, ovoid, mask, in,
                 recover_highlights, success_1, success_2, i, rh, logged, ran, alloc_failed, fault, tm_in>>

FreeInpainted ==
  /\ pc = "free_inpainted"
  /\ heap' = Free(heap, "inpainted")
  /\ pc' = IF RefineCond(data.high_quality_reconstruction, success_1)
             THEN "alloc_norms_ratios" ELSE "select_input"
  /\ UNCHANGED <<procRest, ovoid, mask, in,
                 recover_highlights, success_1, success_2, i, rh, logged, ran, alloc_failed, fault, tm_in>>

AllocNormsRatios ==
  /\ pc = "alloc_norms_ratios"
  /\ \E okn \in BOOLEAN, okr \in BOOLEAN :
       /\ heap' = [heap EXCEPT !["norms"] = IF okn THEN "live" ELSE "null",
                               !["ratios"] = IF okr THEN "live" ELSE "null"]
       /\ alloc_failed' = alloc_failed \cup (IF okn THEN {} ELSE {"norms"})
                                       \cup (IF okr THEN {} ELSE {"ratios"})
       /\ pc' = IF okn /\ okr THEN "loop_test" ELSE "free_norms_ratios"
  /\ i' = 0
  /\ UNCHANGED <<procRest, ovoid, mask, in,
                 recover_highlights, success_1, success_2, rh, logged, ran, fault, tm_in>>

\* the call process makes in a refinement iteration
Call(name, iteration, buf, arg) == [call |-> name, i |-> iteration, buf |-> buf, arg |-> arg]

\* for(int i = 0; i < data->high_quality_reconstruction; i++)
LoopCondInclusive(iteration, hq) == iteration <= hq
LoopCond(iteration, hq) == iteration < hq

LoopTest ==
  /\ pc = "loop_test"
  /\ pc' = IF LoopCond(i, data.high_quality_reconstruction) THEN "compute_ratios" ELSE "free_norms_ratios"
  /\ UNCHANGED <<procRest, ovoid, heap, mask, in,
                 recover_highlights, success_1, success_2, i, rh, logged, ran, alloc_failed, fault, tm_in>>

\* compute_ratios(reconstructed, norms, ratios, ...), then the short-circuit of
\* success_2 = success_2 && reconstruct_highlights(ratios, ...)
ComputeRatios ==
  /\ pc = "compute_ratios"
  /\ IF BadAccess({"reconstructed", "norms", "ratios"})
       THEN Crash({"reconstructed", "norms", "ratios"})
       ELSE /\ ran' = ran \cup {"compute_ratios"}
            /\ hist' = [hist EXCEPT !.refine = Append(@, Call("compute_ratios", i, "reconstructed",
                                                              DT_FILMIC_METHOD_EUCLIDEAN_NORM)),
                                    !.norms_of = i,
                                    !.last = Step("compute_ratios", {"reconstructed"},
                                                  {"norms", "ratios"})]
            /\ pc' = IF success_2 THEN "call_pass2" ELSE "restore_ratios"
            /\ UNCHANGED <<procFrame, ovoid, heap, mask, in,
                           recover_highlights, success_1, success_2, i, rh, logged,
                           alloc_failed, fault, tm_in>>

CallPass2 ==
  /\ pc = "call_pass2"
  /\ rh' = Enter("ratios", DT_FILMIC_RECONSTRUCT_RATIOS)
  /\ hist' = [hist EXCEPT !.steps = <<>>, !.scales = <<>>,
                          !.refine = Append(@, Call("reconstruct_highlights", i, "ratios",
                                                    DT_FILMIC_RECONSTRUCT_RATIOS))]
  /\ pc' = "rh_alloc"
  /\ UNCHANGED <<procFrame, ovoid, heap, mask, in,
                 recover_highlights, success_1, success_2, i, logged, ran, alloc_failed, fault, tm_in>>

\* restore_ratios(reconstructed, norms, ...), then i++
RestoreRatios ==
  /\ pc = "restore_ratios"
  /\ IF BadAccess({"reconstructed", "norms"})
       THEN Crash({"reconstructed", "norms"})
       ELSE /\ ran' = ran \cup {"restore_ratios"}
            /\ hist' = [hist EXCEPT !.refine = Append(@, Call("restore_ratios", i, "reconstructed",
                                                              hist.norms_of)),
                                    !.last = Step("restore_ratios", {"norms"}, {"reconstructed"})]
            /\ i' = i + 1
            /\ pc' = "loop_test"
            /\ UNCHANGED <<procFrame, ovoid, heap, mask, in,
                           recover_highlights, success_1, success_2, rh, logged,
                           alloc_failed, fault, tm_in>>

FreeNormsRatios ==
  /\ pc = "free_norms_ratios"
  /\ heap' = FreeIfSet(FreeIfSet(heap, "norms"), "ratios")
  /\ pc' = "select_input"
  /\ UNCHANGED <<procRest, ovoid, mask, in,
                 recover_highlights, success_1, success_2, i, rh, logged, ran, alloc_failed, fault, tm_in>>

\* if(success_1 && success_2) in = reconstructed;
UseReconstructedAfterPass1(s1, s2) == s1
UseReconstructed(s1, s2) == s1 /\ s2

SelectInput ==
  /\ pc = "select_input"
  /\ in' = IF UseReconstructed(success_1, success_2) THEN "reconstructed" ELSE in
  /\ pc' = "free_mask"
  /\ UNCHANGED <<procRest, ovoid, heap, mask,
                 recover_highlights, success_1, success_2, i, rh, logged, ran, alloc_failed, fault, tm_in>>

(***************************************************************************)
(* process: tone mapping and return                                        *)
(***************************************************************************)
FreeMask ==
  /\ pc = "free_mask"
  /\ heap' = FreeIfSet(heap, "mask")
  /\ pc' = "tonemap"
  /\ UNCHANGED <<procRest, ovoid, mask, in,
                 recover_highlights, success_1, success_2, i, rh, logged, ran, alloc_failed, fault, tm_in>>

DT_FILMIC_COLORSCIENCE_V1 == 0
DT_FILMIC_COLORSCIENCE_V2 == 1

\* the tone-mapping routine process dispatches to
ToneMapper(preserve_color, version) ==
  IF preserve_color = DT_FILMIC_METHOD_NONE
    THEN (IF version = DT_FILMIC_COLORSCIENCE_V1 THEN "filmic_split_v1"
          ELSE IF version = DT_FILMIC_COLORSCIENCE_V2 THEN "filmic_split_v2" ELSE "none")
    ELSE (IF version = DT_FILMIC_COLORSCIENCE_V1 THEN "filmic_chroma_v1"
          ELSE IF version = DT_FILMIC_COLORSCIENCE_V2 THEN "filmic_chroma_v2" ELSE "none")

\* the tone mappers write the three colour channels of the first width * height
\* pixels of out and leave the fourth float alone
tone_mapped(out, routine, src, width, height) ==
  [k \in Pixels |-> IF k <= width * height THEN [src |-> routine, w |-> R(0), a |-> out[k].a]
                    ELSE out[k]]

\* the same call with one row less for the split routines
tone_mapper_height_short(preserve_color, in_height, out_height) ==
  IF preserve_color = DT_FILMIC_METHOD_NONE THEN in_height - 1 ELSE out_height
\* the height process gives the tone mapper: roi_in->height to the split
\* routines, roi_out->height to the ratio-preserving ones
tone_mapper_height(preserve_color, in_height, out_height) ==
  IF preserve_color = DT_FILMIC_METHOD_NONE THEN in_height ELSE out_height

ToneMap ==
  /\ pc = "tonemap"
  /\ LET routine == ToneMapper(data.preserve_color, data.version)
     IN  IF routine = "none"
           THEN /\ pc' = "free_reconstructed"
                /\ UNCHANGED <<procRest, ovoid, heap, mask, in, recover_highlights, success_1,
                               success_2, i, rh, logged, ran, alloc_failed, fault, tm_in>>
           ELSE IF BadAccess({in})
             THEN Crash({in})
             ELSE LET height == tone_mapper_height(data.preserve_color, roi_in.height,
                                                   roi_out.height)
                  IN  /\ ovoid' = tone_mapped(ovoid, routine, in, roi_out.width, height)
                      /\ ran' = ran \cup {routine}
                      /\ tm_in' = in
                      /\ hist' = [hist EXCEPT !.last = Step(routine, {in}, {"ovoid"}),
                                              !.pixels = roi_out.width * height]
                      /\ pc' = "free_reconstructed"
                      /\ UNCHANGED <<procFrame, heap, mask, in, recover_highlights, success_1,
                                     success_2, i, rh, logged, alloc_failed, fault>>

FreeReconstructed ==
  /\ pc = "free_reconstructed"
  /\ heap' = FreeIfSet(heap, "reconstructed")
  /\ pc' = "alpha_copy"
  /\ UNCHANGED <<procRest, ovoid, mask, in,
                 recover_highlights, success_1, success_2, i, rh, logged, ran, alloc_failed, fault, tm_in>>

\* dt_iop_alpha_copy(ivoid, ovoid, ...): the fourth float of every pixel of the
\* first buffer is copied to the second
dt_iop_alpha_copy(src, out) == [k \in Pixels |-> [out[k] EXCEPT !.a = src[k][4]]]

\* if(piece->pipe->mask_display & DT_DEV_PIXELPIPE_DISPLAY_MASK)
AlphaCopyNever(mask_display) == FALSE
AlphaCopyCond(mask_display) == mask_display

AlphaCopy ==
  /\ pc = "alpha_copy"
  /\ ovoid' = IF AlphaCopyCond(piece.mask_display) THEN dt_iop_alpha_copy(ivoid, ovoid) ELSE ovoid
  /\ hist' = IF AlphaCopyCond(piece.mask_display)
               THEN [hist EXCEPT !.last = Step("dt_iop_alpha_copy", {"ivoid"}, {"ovoid"})]
               ELSE hist
  /\ pc' = "returned"
  /\ UNCHANGED <<procFrame, heap, mask, in,
                 recover_highlights, success_1, success_2, i, rh, logged, ran, alloc_failed, fault, tm_in>>

(***************************************************************************)
(* One invocation of process.                                              *)
(***************************************************************************)
ProcNext ==
  \/ ChannelGuard \/ AllocMask \/ MaskClippedPixels \/ DisplayMask
  \/ AllocReconstructed \/ RecoverTest \/ AllocInpainted \/ InpaintNoise \/ CallPass1
  \/ RH_Alloc \/ RH_Init \/ RH_Scale \/ RH_BlurVerticalLF \/ RH_BlurHorizontalLF
  \/ RH_DetailLevel \/ RH_BlurVerticalHF \/ RH_BlurHorizontalHF \/ RH_Reconstruct
  \/ RH_Return
  \/ FreeInpainted \/ AllocNormsRatios \/ LoopTest \/ ComputeRatios \/ CallPass2
  \/ RestoreRatios \/ FreeNormsRatios \/ SelectInput
  \/ FreeMask \/ ToneMap \/ FreeReconstructed \/ AlphaCopy

\* no process invocation is under way
ProcParked ==
  /\ pc = "parked"
  /\ piece = [colors |-> 4, type |-> [full |-> FALSE, fast |-> FALSE], mask_display |-> FALSE,
              buf_in |-> [width |-> 40, height |-> 30], iscale |-> R(1)]
  /\ self = [gui_attached |-> FALSE, show_mask |-> FALSE]
  /\ data = [reconstruct_feather |-> R(16), reconstruct_threshold |-> R(16),
             high_quality_reconstruction |-> 0, preserve_color |-> 0, version |-> 0]
  /\ roi_out = [width |-> 1, height |-> NPix]
  /\ roi_in = [scale |-> R(1), height |-> NPix]
  /\ ivoid = Image(0)
  /\ ovoid = OutInit(R(0))
  /\ heap = EmptyHeap
  /\ mask = [k \in Pixels |-> R(0)]
  /\ in = "ivoid"
  /\ recover_highlights = FALSE
  /\ success_1 = TRUE
  /\ success_2 = TRUE
  /\ i = 0
  /\ rh = NoFrame
  /\ logged = {}
  /\ ran = {}
  /\ alloc_failed = {}
  /\ fault = "none"
  /\ tm_in = "none"
  /\ hist = NoCalls

(***************************************************************************)
(* get_scales and the tap step of each scale.                              *)
(***************************************************************************)
ScalesParked == gs = [roi_scale |-> R(1), iscale |-> R(1), buf_w |-> 0, buf_h |-> 0,
                      scales |-> 0, s |-> 0, mult |-> 0]

\* region sizes from one pixel to a very large image, zooms from 1/64 to 16,
\* iscale from 1/4 to 8
ScalesInit ==
  gs \in [roi_scale : {Rat(1, 64), Rat(1, 4), R(1), Rat(5, 2), R(16)},
          iscale : {Rat(1, 4), R(1), R(8)},
          buf_w : {1, 10, 40, 100, 6000, 100000},
          buf_h : {1, 30, 4000, 200000},
          scales : {0}, s : {0}, mult : {0}]

\* const int scales = get_scales(roi_in, piece);
GetScales ==
  /\ gs.scales = 0
  /\ \E sc \in get_scales(gs.roi_scale, gs.iscale, gs.buf_w, gs.buf_h) :
       gs' = [gs EXCEPT !.scales = sc]
  /\ UNCHANGED scalesFrame

\* for(int s = 0; s < scales; ++s) { ... const int mult = 1 << s; ... }
ScaleStep ==
  /\ gs.scales # 0
  /\ gs.s < gs.scales
  /\ gs' = [gs EXCEPT !.mult = Pow2(gs.s), !.s = gs.s + 1]
  /\ UNCHANGED scalesFrame

ScalesNext == GetScales \/ ScaleStep

(***************************************************************************)
(* The parameter edits of the GUI and commit_params.                       *)
(***************************************************************************)
\* log2f, exact on the powers of two the session feeds it
\* of a negative number, as of a NaN, it is NaN
log2f(q) == IF IsNaN(q) \/ q[1] < 0 THEN NaN ELSE R(FloorLog2(q))

\* CLAMP(x, low, high) is (x > high) ? high : ((x < low) ? low : x).  On a NaN
\* neither test holds and x comes through; the file is built with
\* finite-math-only, under which the build may take the negation of a test
\* for the test, or a minss / maxss pair, and gives high or low: unordered is
\* that choice, made for each CLAMP on its own
ClampOutcomes == {"x", "low", "high"}
CLAMP_float(x, low, high, unordered) ==
  IF IsNaN(x)
    THEN (IF unordered = "high" THEN high ELSE IF unordered = "low" THEN low ELSE x)
    ELSE IF RLess(high, x) THEN high ELSE IF RLess(x, low) THEN low ELSE x
\* the choices that bear on CLAMP(x, ...) and on CLAMP(log2f(x), ...)
ClampChoices(x) == IF IsNaN(x) THEN ClampOutcomes ELSE {"x"}
Log2ClampChoices(x) == IF IsNaN(x) \/ x[1] < 0 THEN ClampOutcomes ELSE {"x"}

\* CLAMP(log2f(x), low, high): log2f(0) is -inf, which CLAMP raises to low
clamped_log2f(x, low, high, unordered) ==
  IF x = R(0) THEN low ELSE CLAMP_float(log2f(x), low, high, unordered)

\* logf(grey_point_target / 100.0f) / logf(-black / (white - black)), kept as
\* the expression's operands
auto_output_power(q) ==
  <<"logf ratio", q.grey_point_target, q.black_point_source, q.white_point_source>>
\* a hardness given as a number
output_power_value(v) == <<"value", v, R(0), R(0)>>

\* the grey points of the session: 18.45 % times a power of two
DefaultGrey == Rat(369, 20)
GreyValues == {RMul(DefaultGrey, R(4)), DefaultGrey, RDiv(DefaultGrey, R(32))}
SecurityFactors == {R(-50), R(0), R(200)}
\* the black and white sliders at their declared limits
BlackValues == {R(-16), Rat(-1, 10)}
WhiteValues == {R(0), R(16)}

DefaultParams ==
  [grey_point_source |-> DefaultGrey, black_point_source |-> R(-8), white_point_source |-> R(4),
   security_factor |-> R(0), grey_point_target |-> DefaultGrey,
   output_power |-> output_power_value(R(4)), auto_hardness |-> TRUE, custom_grey |-> FALSE]

\* piece->data before init_pipe and after cleanup_pipe
NoPieceData == [done |-> FALSE, dynamic_range |-> R(0), black_source |-> R(0),
                grey_source |-> R(0), output_power |-> output_power_value(R(0))]

GuiParked ==
  /\ p = DefaultParams
  /\ default_params = DefaultParams
  /\ committed = NoPieceData
  /\ gui_reset = 0
  /\ edits = 0

\* parameters within their declared ranges
GuiInit ==
  /\ p \in [grey_point_source : GreyValues, black_point_source : {R(-8), R(-1)},
            white_point_source : {R(4)}, security_factor : {R(0)},
            grey_point_target : {DefaultGrey}, output_power : {output_power_value(R(4))},
            auto_hardness : BOOLEAN, custom_grey : BOOLEAN]
  /\ default_params = DefaultParams
  /\ committed = NoPieceData
  /\ gui_reset \in {0, 1}
  /\ edits = 0

\* the widgets that make gui_changed update the exposure points and the hardness;
\* "NULL" is the w of the call gui_update makes
ExposureWidgets == {"NULL", "auto_hardness", "security_factor", "grey_point_source",
                    "black_point_source", "white_point_source"}

\* gui_changed(self, w, previous), p holding the new value of the widget
gui_changed(q, w, previous) ==
  IF w \notin ExposureWidgets THEN q
  ELSE
  LET q1 == IF w = "security_factor"
              THEN LET ratio == RDiv(RSub(q.security_factor, previous), RAdd(previous, R(100)))
                       EVmin == RAdd(q.black_point_source, RMul(ratio, q.black_point_source))
                       EVmax == RAdd(q.white_point_source, RMul(ratio, q.white_point_source))
                   IN  [q EXCEPT !.white_point_source = EVmax, !.black_point_source = EVmin]
            ELSE IF w = "grey_point_source"
              THEN LET grey_var == log2f(RDiv(previous, q.grey_point_source))
                   IN  [q EXCEPT !.black_point_source = RSub(q.black_point_source, grey_var),
                                 !.white_point_source = RAdd(q.white_point_source, grey_var)]
            ELSE q
  IN  IF q1.auto_hardness THEN [q1 EXCEPT !.output_power = auto_output_power(q1)] ELSE q1

\* the target greys of the session
GreyTargets == {DefaultGrey, R(50)}

SliderValues(w) ==
  CASE w = "security_factor" -> SecurityFactors
    [] w = "grey_point_source" -> GreyValues
    [] w = "black_point_source" -> BlackValues
    [] w = "white_point_source" -> WhiteValues
    [] w = "auto_hardness" -> BOOLEAN
    [] w = "grey_point_target" -> GreyTargets

\* the user moves a slider or toggles a check box: the new value is in the field
\* when gui_changed runs
GuiChanged(w) ==
  /\ edits < MaxEdits
  /\ \E v \in SliderValues(w) :
       /\ v # p[w]
       /\ p' = gui_changed([p EXCEPT ![w] = v], w, p[w])
  /\ edits' = edits + 1
  /\ UNCHANGED <<guiFrame, default_params, committed, gui_reset>>

\* gui_update ends with gui_changed(self, NULL, NULL)
GuiUpdate ==
  /\ p' = gui_changed(p, "NULL", R(0))
  /\ UNCHANGED <<guiFrame, default_params, committed, gui_reset, edits>>

GuiChangedSecurityFactor == GuiChanged("security_factor")
GuiChangedGrey == GuiChanged("grey_point_source")
GuiChangedBlack == GuiChanged("black_point_source")
GuiChangedWhite == GuiChanged("white_point_source")
GuiChangedAutoHardness == GuiChanged("auto_hardness")
GuiChangedGreyTarget == GuiChanged("grey_point_target")

\* the norms get_pixel_norm gives for the picked areas
PickedGreyNorms == {RDiv(g, R(50)) : g \in GreyValues}
\* the darkest area picked can hold negative channels, of which log2f is NaN
PickedBlackRatios == {R(-1), R(0), Rat(1, 16)}
PickedWhiteRatios == {R(8), R(131072)}

apply_auto_grey(q, norm, unordered) ==
  LET grey == RDiv(norm, R(2))
      prev_grey == q.grey_point_source
      new_grey == CLAMP_float(RMul(R(100), grey), Rat(1, 1000), R(100), unordered)
      grey_var == log2f(RDiv(prev_grey, new_grey))
      q1 == [q EXCEPT !.grey_point_source = new_grey,
                      !.black_point_source = RSub(q.black_point_source, grey_var),
                      !.white_point_source = RAdd(q.white_point_source, grey_var)]
  IN  [q1 EXCEPT !.output_power = auto_output_power(q1)]

\* EVmin and EVmax of the pickers, from the picked norm
auto_EVmin(q, black, unordered) ==
  RMul(clamped_log2f(RDiv(black, RDiv(q.grey_point_source, R(100))), R(-16), R(-1),
                     unordered),
       RAdd(R(1), RDiv(q.security_factor, R(100))))
auto_EVmax(q, white, unordered) ==
  RMul(clamped_log2f(RDiv(white, RDiv(q.grey_point_source, R(100))), R(1), R(16),
                     unordered),
       RAdd(R(1), RDiv(q.security_factor, R(100))))

apply_auto_black(q, black, picks_first, unordered) ==
  LET q1 == [q EXCEPT !.black_point_source =
                        fmaxf(auto_EVmin(q, black, unordered), R(-16), picks_first)]
  IN  [q1 EXCEPT !.output_power = auto_output_power(q1)]

apply_auto_white_point_source(q, white, unordered) ==
  LET q1 == [q EXCEPT !.white_point_source = auto_EVmax(q, white, unordered)]
  IN  [q1 EXCEPT !.output_power = auto_output_power(q1)]

\* unordered holds the choices of the CLAMP of the grey, of EVmax and of EVmin
apply_autotune(q, norm, black, white, picks_first, unordered) ==
  LET q0 == IF q.custom_grey
              THEN [q EXCEPT !.grey_point_source =
                      CLAMP_float(RMul(R(100), RDiv(norm, R(2))), Rat(1, 1000), R(100),
                                  unordered[1])]
              ELSE q
      q1 == [q0 EXCEPT !.black_point_source =
                         fmaxf(auto_EVmin(q0, black, unordered[3]), R(-16), picks_first),
                       !.white_point_source = auto_EVmax(q0, white, unordered[2])]
  IN  [q1 EXCEPT !.output_power = auto_output_power(q1)]

\* the picked norm that is `ratio` times the grey point
NormAt(q, ratio) == RMul(RDiv(q.grey_point_source, R(100)), ratio)

ApplyAutoGrey ==
  /\ edits < MaxEdits
  /\ edits' = edits + 1
  /\ \E norm \in PickedGreyNorms :
       \E unordered \in ClampChoices(norm) :
         p' = IF gui_reset # 0 THEN p ELSE apply_auto_grey(p, norm, unordered)
  /\ UNCHANGED <<guiFrame, default_params, committed, gui_reset>>

ApplyAutoBlack ==
  /\ edits < MaxEdits
  /\ edits' = edits + 1
  /\ \E r \in PickedBlackRatios, picks_first \in BOOLEAN :
       \E unordered \in Log2ClampChoices(r) :
         p' = IF gui_reset # 0 THEN p
              ELSE apply_auto_black(p, NormAt(p, r), picks_first, unordered)
  /\ UNCHANGED <<guiFrame, default_params, committed, gui_reset>>

ApplyAutoWhitePointSource ==
  /\ edits < MaxEdits
  /\ edits' = edits + 1
  /\ \E r \in PickedWhiteRatios :
       \E unordered \in Log2ClampChoices(r) :
         p' = IF gui_reset # 0 THEN p
              ELSE apply_auto_white_point_source(p, NormAt(p, r), unordered)
  /\ UNCHANGED <<guiFrame, default_params, committed, gui_reset>>

\* apply_autotune does not test darktable.gui->reset
ApplyAutotune ==
  /\ edits < MaxEdits
  /\ edits' = edits + 1
  /\ \E norm \in PickedGreyNorms, rb \in PickedBlackRatios, rw \in PickedWhiteRatios,
        picks_first \in BOOLEAN :
       \E unordered \in ClampChoices(norm) \X Log2ClampChoices(rw) \X Log2ClampChoices(rb) :
         LET grey == IF p.custom_grey THEN RMul(R(50), norm) ELSE p.grey_point_source
         IN  p' = apply_autotune(p, norm, RMul(RDiv(grey, R(100)), rb),
                                 RMul(RDiv(grey, R(100)), rw), picks_first, unordered)
  /\ UNCHANGED <<guiFrame, default_params, committed, gui_reset>>

\* dt_image_get_exposure_bias of the image
ExposureBiases == {Rat(-3, 2), Rat(1, 2), Rat(5, 2)}

\* reload_defaults: what it leaves in module->default_params and copies to
\* module->params; scene_referred is "there is an image, it is a raw one and the
\* workflow preference is scene-referred"
reload_defaults(scene_referred, exposure_bias) ==
  LET dflt == DefaultParams
  IN  IF ~scene_referred THEN dflt
      ELSE LET exposure == RSub(Rat(1, 2), exposure_bias)
               d1 == [dflt EXCEPT
                        !.black_point_source = RAdd(dflt.black_point_source, RMul(Rat(1, 2), exposure)),
                        !.white_point_source = RAdd(dflt.white_point_source, RMul(Rat(4, 5), exposure))]
           IN  [d1 EXCEPT !.output_power = auto_output_power(d1)]

ReloadDefaults ==
  /\ edits < MaxEdits
  /\ edits' = edits + 1
  /\ \E scene_referred \in BOOLEAN, bias \in ExposureBiases :
       /\ default_params' = reload_defaults(scene_referred, bias)
       /\ p' = default_params'
  /\ UNCHANGED <<guiFrame, committed, gui_reset>>

\* commit_params: the fields of piece->data computed from the exposure points
commit_params(q) ==
  LET grey_source == IF q.custom_grey THEN RDiv(q.grey_point_source, R(100)) ELSE Rat(1845, 10000)
      white_source == q.white_point_source
      black_source == q.black_point_source
      dynamic_range == RSub(white_source, black_source)
  IN  [done |-> TRUE, dynamic_range |-> dynamic_range, black_source |-> black_source,
       grey_source |-> grey_source, output_power |-> q.output_power]

\* init_pipe: piece->data = calloc(...); self->commit_params(self, self->default_params, pipe, piece)
InitPipe ==
  /\ ~committed.done
  /\ committed' = commit_params(default_params)
  /\ UNCHANGED <<guiFrame, p, default_params, gui_reset, edits>>

\* the pipe commits the parameters of the session to the piece->data init_pipe allocated
CommitParams ==
  /\ committed.done
  /\ committed' = commit_params(p)
  /\ UNCHANGED <<guiFrame, p, default_params, gui_reset, edits>>

\* cleanup_pipe: free(piece->data); piece->data = NULL
CleanupPipe ==
  /\ committed.done
  /\ committed' = NoPieceData
  /\ UNCHANGED <<guiFrame, p, default_params, gui_reset, edits>>

GuiNext ==
  \/ GuiChangedSecurityFactor \/ GuiChangedGrey \/ GuiChangedBlack \/ GuiChangedWhite
  \/ GuiChangedAutoHardness \/ GuiChangedGreyTarget \/ GuiUpdate
  \/ ApplyAutoGrey \/ ApplyAutoBlack \/ ApplyAutoWhitePointSource \/ ApplyAutotune
  \/ ReloadDefaults \/ InitPipe \/ CommitParams \/ CleanupPipe

(***************************************************************************)
(* The wavelets reconstruction on pixel values.                            *)
(***************************************************************************)
\* the content of memory no statement has written: it poisons what is computed
\* from it, as NaN does
Indeterminate == <<1, 0>>

filter == <<Rat(1, 16), Rat(4, 16), Rat(6, 16), Rat(4, 16), Rat(1, 16)>>

\* (abs_a > abs_b) ? a : b; under finite-math-only the comparison with a NaN
\* operand is true in some builds and false in others: `unordered` is its value,
\* which each call has on its own
fmaxabsf(a, b, unordered) ==
  IF IsNaN(a) \/ IsNaN(b) THEN (IF unordered THEN a ELSE b)
  ELSE IF RLess(fabsf(b), fabsf(a)) THEN a ELSE b
\* (abs_a < abs_b) ? a : b
fminabsf(a, b, unordered) ==
  IF IsNaN(a) \/ IsNaN(b) THEN (IF unordered THEN a ELSE b)
  ELSE IF RLess(fabsf(a), fabsf(b)) THEN a ELSE b
\* fmaxabsf(fmaxabsf(a, b), c): unordered[1] and unordered[2] are the comparisons
\* of the inner and of the outer call.  The outer call compares fabsf of the
\* inner result, which the vectorised builds take as fmaxf(|a|, |b|) instead
\* (unordered[3]), an fmaxf that picks its first operand or its second
\* (unordered[4]): there the inner result can be the NaN while its fabsf is not
fmaxabsf_nested(a, b, c, unordered) ==
  LET inner == fmaxabsf(a, b, unordered[1])
      abs_inner == IF unordered[3] THEN fmaxf(fabsf(a), fabsf(b), unordered[4])
                                   ELSE fabsf(inner)
  IN  IF IsNaN(abs_inner) \/ IsNaN(c) THEN (IF unordered[2] THEN inner ELSE c)
      ELSE IF RLess(fabsf(c), abs_inner) THEN inner ELSE c
\* fminabsf(fminabsf(a, b), c), likewise
fminabsf_nested(a, b, c, unordered) ==
  LET inner == fminabsf(a, b, unordered[1])
      abs_inner == IF unordered[3] THEN fminf(fabsf(a), fabsf(b), unordered[4])
                                   ELSE fabsf(inner)
  IN  IF IsNaN(abs_inner) \/ IsNaN(c) THEN (IF unordered[2] THEN inner ELSE c)
      ELSE IF RLess(abs_inner, fabsf(c)) THEN inner ELSE c

\* in[index * ch + c]; a read outside the buffer gives an indeterminate value
ReadFloat(buf, index, c) == IF index \in 0..(Len(buf) - 1) THEN buf[index + 1][c + 1] ELSE Indeterminate

RECURSIVE Accumulate(_, _)
Accumulate(terms, n) == IF n = 0 THEN R(0) ELSE RAdd(Accumulate(terms, n - 1), terms[n])

\* the boundary test with the two ends of the fast track included
BoundaryZoneEndsInFastTrack(j, width, mult) ==
  ~((j >= 2 * mult) /\ (IF width >= 2 * mult THEN j <= width - 2 * mult ELSE TRUE))

\* !((j > 2 * mult) && (j < width - 2 * mult)), in size_t arithmetic: width - 2 * mult
\* wraps around to a huge value when 2 * mult exceeds width
BoundaryZone(j, width, mult) ==
  ~((j > 2 * mult) /\ (IF width >= 2 * mult THEN j < width - 2 * mult ELSE TRUE))

\* mult * (jj - (FSIZE - 1) / 2) + j
TapIndex(mult, jj, j) == mult * (jj - (FSIZE - 1) \div 2) + j

ClampIndex(x, low, high) == IF x < low THEN low ELSE IF x > high THEN high ELSE x

\* convolves along the column index j, within each line; writes channels 0..2 of out
blur_2D_Bspline_vertical(inb, outb, width, height, mult, bound_left, bound_right) ==
  [k \in 1..(width * height) |->
     LET row == (k - 1) \div width
         col == (k - 1) % width
         check == BoundaryZone(col, width, mult)
         index_x(jj) == IF check THEN ClampIndex(TapIndex(mult, jj, col), bound_left, bound_right)
                        ELSE TapIndex(mult, jj, col)
         accumulator(c) ==
           Accumulate([t \in 1..FSIZE |->
                         RMul(filter[t], ReadFloat(inb, row * width + index_x(t - 1), c))], FSIZE)
     IN  <<accumulator(0), accumulator(1), accumulator(2), outb[k][4]>>]

\* convolves along the line index i, within each column; writes the four channels of out, the
\* fourth from an accumulator that stays 0
blur_2D_Bspline_horizontal(inb, outb, width, height, mult, bound_top, bound_bot) ==
  [k \in 1..(width * height) |->
     LET row == (k - 1) \div width
         col == (k - 1) % width
         check == BoundaryZone(row, height, mult)
         index_y(ii) == IF check THEN ClampIndex(TapIndex(mult, ii, row), bound_top, bound_bot)
                        ELSE TapIndex(mult, ii, row)
         accumulator(c) ==
           Accumulate([t \in 1..FSIZE |->
                         RMul(filter[t], ReadFloat(inb, index_y(t - 1) * width + col, c))], FSIZE)
     IN  <<accumulator(0), accumulator(1), accumulator(2), R(0)>>]

\* reconstructed[k] = in[k] * (1.f - mask[k / ch])
init_reconstruct(inb, maskb) ==
  [k \in 1..Len(inb) |-> [c \in 1..CH |-> RMul(inb[k][c], RSub(R(1), maskb[k]))]]

\* HF[k + c] = detail[k + c] - LF[k + c] for c < 3
detail_level_HF(detail, LF, HF) ==
  [k \in 1..Len(detail) |->
     <<RSub(detail[k][1], LF[k][1]), RSub(detail[k][2], LF[k][2]),
       RSub(detail[k][3], LF[k][3]), HF[k][4]>>]

\* the two buffers wavelets_detail_level_RGB writes; unordered is what the build
\* makes of the two fmaxabsf on a NaN
wavelets_detail_level_RGB(detail, LF, HF, unordered) ==
  LET hf == detail_level_HF(detail, LF, HF)
  IN  [HF |-> hf,
       texture |-> [k \in 1..Len(detail) |-> fmaxabsf_nested(hf[k][1], hf[k][2], hf[k][3], unordered)]]

\* the two buffers wavelets_detail_level_ratios writes
wavelets_detail_level_ratios(detail, LF, HF, unordered) ==
  LET hf == detail_level_HF(detail, LF, HF)
  IN  [HF |-> hf,
       texture |-> [k \in 1..Len(detail) |-> fminabsf_nested(hf[k][1], hf[k][2], hf[k][3], unordered)]]

\* the calls of wavelets_reconstruct_* whose result on a NaN depends on the
\* build: build.details is what it makes of the two fmaxabsf of grey_details,
\* build.residual its grouping of the calls of grey_residual, build.color[c]
\* what the fminf of color_details picks for channel c (the loop over c is
\* vectorised, and its lanes do not all use the same instructions).  A choice
\* bears on the result only where a NaN reaches its call: a NaN of HF for
\* grey_details, a NaN of LF for grey_residual, a NaN of HF or a pixel without
\* details (0 / 0) for color_details; elsewhere the choice of the source stands
\* for all
ReconstructNanChoices(HF, LF) ==
  LET nan_HF == \E k \in 1..Len(HF), c \in 1..3 : IsNaN(HF[k][c])
      nan_LF == \E k \in 1..Len(LF), c \in 1..3 : IsNaN(LF[k][c])
      zero_HF == \E k \in 1..Len(HF) : \A c \in 1..3 : HF[k][c][1] = 0
  IN  [details : IF nan_HF THEN NanChoices(4) ELSE {[n \in 1..4 |-> FALSE]},
       residual : IF nan_LF THEN Groupings(1..3) ELSE {SourceGrouping(3)},
       color : IF nan_HF \/ zero_HF THEN NanChoices(3) ELSE {[n \in 1..3 |-> FALSE]}]

wavelets_reconstruct_RGB(HF, LF, texture, maskb, reconstructed, gamma, gamma_comp, beta, beta_comp, delta, scales, build) ==
  [k \in 1..Len(reconstructed) |->
     LET alpha == maskb[k]
         HF_c == HF[k]
         LF_c == LF[k]
         grey_texture == RMul(gamma, texture[k])
         grey_details == fmaxabsf_nested(HF_c[1], HF_c[2], HF_c[3], build.details)
         grey_HF == RMul(beta_comp, RAdd(RMul(gamma_comp, grey_details), grey_texture))
         grey_residual == RMul(beta_comp, fminf_grouped(<<LF_c[1], LF_c[2], LF_c[3]>>, build.residual))
         color_residual(c) == RMul(LF_c[c], beta)
         color_details(c) ==
           RMul(RAdd(RMul(HF_c[c], gamma_comp),
                     RMul(fminf(fabsf(RDiv(HF_c[c], grey_details)), R(1), build.color[c]),
                          grey_texture)),
                beta)
         out(c) == RAdd(reconstructed[k][c],
                        RMul(alpha, RAdd(RMul(delta, RAdd(grey_HF, color_details(c))),
                                         RDiv(RAdd(grey_residual, color_residual(c)), R(scales)))))
     IN  <<out(1), out(2), out(3), reconstructed[k][4]>>]

wavelets_reconstruct_ratios(HF, LF, texture, maskb, reconstructed, gamma, gamma_comp, beta, beta_comp, delta, scales, build) ==
  [k \in 1..Len(reconstructed) |->
     LET alpha == maskb[k]
         HF_c == HF[k]
         LF_c == LF[k]
         grey_texture == RMul(gamma, texture[k])
         grey_details == fmaxabsf_nested(HF_c[1], HF_c[2], HF_c[3], build.details)
         grey_HF == RMul(beta_comp, RAdd(RMul(gamma_comp, grey_details), grey_texture))
         grey_residual == RMul(beta_comp, fmaxf_grouped(<<LF_c[1], LF_c[2], LF_c[3]>>, build.residual))
         color_residual(c) == RMul(LF_c[c], beta)
         color_details(c) ==
           RMul(RSub(RMul(HF_c[c], gamma_comp),
                     RMul(RMul(Rat(1, 2),
                               fminf(fabsf(RDiv(HF_c[c], grey_details)), R(1), build.color[c])),
                          grey_texture)),
                beta)
         out(c) == RAdd(reconstructed[k][c],
                        RMul(alpha, RAdd(RMul(delta, RAdd(grey_HF, color_details(c))),
                                         RDiv(RAdd(grey_residual, color_residual(c)), R(scales)))))
     IN  <<out(1), out(2), out(3), reconstructed[k][4]>>]

RoiPixels == 1..(RoiWidth * RoiHeight)

\* a buffer fresh from dt_alloc_sse_ps
Fresh == [k \in RoiPixels |-> <<Indeterminate, Indeterminate, Indeterminate, Indeterminate>>]
FreshGrey == [k \in RoiPixels |-> Indeterminate]

\* input images: one flat, one with texture whose channels are in the ratio
\* 1 : 2 : 4; the values are multiples of 4096, which keeps two scales exact
FlatImage == [k \in RoiPixels |-> <<R(4096), R(4096), R(4096), Rat(k % 3, 2)>>]
TexturedImage ==
  [k \in RoiPixels |->
     LET v == 4096 * (1 + (((k * k) % 5) % 2) + ((k \div RoiWidth) % 2))
     IN  <<R(v), R(2 * v), R(4 * v), Rat(k % 3, 2)>>]
ReconImages == {FlatImage, TexturedImage}

ZeroMask == [k \in RoiPixels |-> R(0)]
MixedMask == [k \in RoiPixels |-> Rat(k % 3, 2)]
ReconMasks == {ZeroMask, MixedMask}

\* the three balance weights of piece->data, each in [0, 1]
ReconWeights ==
  {[reconstruct_structure_vs_texture |-> Rat(1, 2), reconstruct_grey_vs_color |-> Rat(1, 2),
    reconstruct_bloom_vs_details |-> Rat(1, 2)],
   [reconstruct_structure_vs_texture |-> R(1), reconstruct_grey_vs_color |-> R(0),
    reconstruct_bloom_vs_details |-> R(1)]}

\* the scale counts of the calls explored
ReconScales == {1, 2}

ReconParked ==
  wv = [pc |-> "parked", in |-> <<>>, mask |-> <<>>, reconstructed |-> <<>>,
        variant |-> DT_FILMIC_RECONSTRUCT_RGB, data |-> CHOOSE d \in ReconWeights : TRUE,
        scales |-> 1, s |-> 0, width |-> 0, height |-> 0,
        LF_even |-> <<>>, LF_odd |-> <<>>, HF_RGB |-> <<>>, HF_grey |-> <<>>, temp |-> <<>>]

\* the call has its five scale buffers and is about to run init_reconstruct
ReconInit ==
  wv \in [pc : {"init"}, in : ReconImages, mask : ReconMasks, reconstructed : {Fresh},
          variant : {DT_FILMIC_RECONSTRUCT_RGB, DT_FILMIC_RECONSTRUCT_RATIOS},
          data : ReconWeights, scales : ReconScales, s : {0},
          width : {RoiWidth}, height : {RoiHeight},
          LF_even : {Fresh}, LF_odd : {Fresh}, HF_RGB : {Fresh}, HF_grey : {FreshGrey},
          temp : {Fresh}]

\* the buffers of scale s: detail is in, LF_odd or LF_even; LF is LF_odd or LF_even
DetailName(s) == IF s = 0 THEN "in" ELSE IF s % 2 # 0 THEN "LF_odd" ELSE "LF_even"
LFName(s) == IF s = 0 THEN "LF_odd" ELSE IF s % 2 # 0 THEN "LF_even" ELSE "LF_odd"

Recon_InitReconstruct ==
  /\ wv.pc = "init"
  /\ wv' = [wv EXCEPT !.reconstructed = init_reconstruct(wv.in, wv.mask),
                      !.pc = "scale"]
  /\ UNCHANGED reconFrame

\* for(int s = 0; s < scales; ++s)
Recon_Scale ==
  /\ wv.pc = "scale"
  /\ wv' = [wv EXCEPT !.pc = IF wv.s < wv.scales THEN "blur_v_lf" ELSE "return"]
  /\ UNCHANGED reconFrame

Recon_BlurVerticalLF ==
  /\ wv.pc = "blur_v_lf"
  /\ wv' = [wv EXCEPT !.temp = blur_2D_Bspline_vertical(wv[DetailName(wv.s)], wv.temp, wv.width,
                                                        wv.height, Pow2(wv.s), 0, wv.width - 1),
                      !.pc = "blur_h_lf"]
  /\ UNCHANGED reconFrame

Recon_BlurHorizontalLF ==
  /\ wv.pc = "blur_h_lf"
  /\ wv' = [wv EXCEPT ![LFName(wv.s)] =
                         blur_2D_Bspline_horizontal(wv.temp, wv[LFName(wv.s)], wv.width,
                                                    wv.height, Pow2(wv.s), 0, wv.height - 1),
                      !.pc = "detail"]
  /\ UNCHANGED reconFrame

Recon_DetailLevel ==
  /\ wv.pc = "detail"
  /\ \E unordered \in NanChoices(4) :
       LET r == IF wv.variant = DT_FILMIC_RECONSTRUCT_RGB
                  THEN wavelets_detail_level_RGB(wv[DetailName(wv.s)], wv[LFName(wv.s)],
                                                 wv.HF_RGB, unordered)
                  ELSE wavelets_detail_level_ratios(wv[DetailName(wv.s)], wv[LFName(wv.s)],
                                                    wv.HF_RGB, unordered)
       IN  wv' = [wv EXCEPT !.HF_RGB = r.HF, !.HF_grey = r.texture, !.pc = "blur_v_hf"]
  /\ UNCHANGED reconFrame

Recon_BlurVerticalHF ==
  /\ wv.pc = "blur_v_hf"
  /\ wv' = [wv EXCEPT !.temp = blur_2D_Bspline_vertical(wv.HF_RGB, wv.temp, wv.width, wv.height,
                                                        Pow2(wv.s), 0, wv.width - 1),
                      !.pc = "blur_h_hf"]
  /\ UNCHANGED reconFrame

Recon_BlurHorizontalHF ==
  /\ wv.pc = "blur_h_hf"
  /\ wv' = [wv EXCEPT !.HF_RGB = blur_2D_Bspline_horizontal(wv.temp, wv.HF_RGB, wv.width,
                                                            wv.height, Pow2(wv.s), 0, wv.height - 1),
                      !.pc = "reconstruct"]
  /\ UNCHANGED reconFrame

Recon_Reconstruct ==
  /\ wv.pc = "reconstruct"
  /\ \E build \in ReconstructNanChoices(wv.HF_RGB, wv[LFName(wv.s)]) :
       LET gamma == wv.data.reconstruct_structure_vs_texture
           gamma_comp == RSub(R(1), wv.data.reconstruct_structure_vs_texture)
           beta == wv.data.reconstruct_grey_vs_color
           beta_comp == RSub(R(1), wv.data.reconstruct_grey_vs_color)
           delta == wv.data.reconstruct_bloom_vs_details
       IN  wv' = [wv EXCEPT
                    !.reconstructed =
                       IF wv.variant = DT_FILMIC_RECONSTRUCT_RGB
                         THEN wavelets_reconstruct_RGB(wv.HF_RGB, wv[LFName(wv.s)], wv.HF_grey,
                                                       wv.mask, wv.reconstructed, gamma, gamma_comp,
                                                       beta, beta_comp, delta, wv.scales, build)
                         ELSE wavelets_reconstruct_ratios(wv.HF_RGB, wv[LFName(wv.s)], wv.HF_grey,
                                                          wv.mask, wv.reconstructed, gamma, gamma_comp,
                                                          beta, beta_comp, delta, wv.scales, build),
                    !.s = wv.s + 1,
                    !.pc = "scale"]
  /\ UNCHANGED reconFrame

\* error: the five scale buffers are released; return success
Recon_Return ==
  /\ wv.pc = "return"
  /\ wv' = [wv EXCEPT !.pc = "returned", !.LF_even = <<>>, !.LF_odd = <<>>, !.HF_RGB = <<>>,
                      !.HF_grey = <<>>, !.temp = <<>>]
  /\ UNCHANGED reconFrame

ReconNext ==
  \/ Recon_InitReconstruct \/ Recon_Scale \/ Recon_BlurVerticalLF \/ Recon_BlurHorizontalLF
  \/ Recon_DetailLevel \/ Recon_BlurVerticalHF \/ Recon_BlurHorizontalHF \/ Recon_Reconstruct
  \/ Recon_Return

(***************************************************************************)
(* The curve: commit_params, dt_iop_filmic_rgb_compute_spline and          *)
(* filmic_spline.                                                          *)
(***************************************************************************)
DT_FILMIC_CURVE_POLY_4 == 0
DT_FILMIC_CURVE_POLY_3 == 1

ORDER_4 == 5
ORDER_3 == 4

\* CLAMP on floats
CLAMPF(x, low, high) == IF RLess(high, x) THEN high ELSE IF RLess(x, low) THEN low ELSE x

\* powf(base, 1.0f / output_power), exact for the hardnesses 1, 2 and 4 on the
\* bases that are perfect powers
powf_inverse(base, output_power) ==
  IF output_power = R(1) THEN base
  ELSE IF output_power = R(2) THEN sqrtf(base)
  ELSE sqrtf(sqrtf(base))

\* gauss_solve(A, b, n): the solution of A x = b left in b, by elimination with
\* the pivot of largest magnitude.  M holds the rows of A, each followed by its
\* entry of b; the result is <<>> when A is singular.
RECURSIVE gauss_eliminate(_, _, _)
gauss_eliminate(M, k, n) ==
  IF k > n THEN M
  ELSE LET cand == {r \in k..n : M[r][k][1] # 0}
       IN  IF cand = {} THEN <<>>
           ELSE LET r == CHOOSE r1 \in cand :
                           \A r2 \in cand : /\ RLeq(fabsf(M[r2][k]), fabsf(M[r1][k]))
                                            /\ (fabsf(M[r2][k]) = fabsf(M[r1][k]) => r1 <= r2)
                    top == M[r]
                    pivot == [j \in 1..(n + 1) |-> RDiv(top[j], top[k])]
                    rest(row) == [j \in 1..(n + 1) |-> RSub(row[j], RMul(row[k], pivot[j]))]
                IN  gauss_eliminate([t \in 1..n |-> IF t = k THEN pivot
                                                    ELSE IF t = r THEN rest(M[k])
                                                    ELSE rest(M[t])], k + 1, n)

gauss_solve(A, b, n) ==
  LET M == gauss_eliminate([t \in 1..n |-> A[t] \o <<b[t]>>], 1, n)
  IN  IF M = <<>> THEN [t \in 1..n |-> NaN] ELSE [t \in 1..n |-> M[t][n + 1]]

\* the five nodes of the curve and the slope of its linear part
spline_nodes(q) ==
  LET grey_display ==
        IF q.custom_grey
          THEN powf_inverse(RDiv(CLAMPF(q.grey_point_target, q.black_point_target,
                                        q.white_point_target), R(100)), q.output_power)
          ELSE powf_inverse(Rat(1845, 10000), q.output_power)
      white_source == q.white_point_source
      black_source == q.black_point_source
      dynamic_range == RSub(white_source, black_source)
      black_log == R(0)
      grey_log == RDiv(fabsf(q.black_point_source), dynamic_range)
      white_log == R(1)
      black_display == RDiv(CLAMPF(q.black_point_target, R(0), q.grey_point_target), R(100))
      white_display == RDiv(CLAMPF(q.white_point_target, q.grey_point_target, R(100)), R(100))
      latitude == RMul(RDiv(CLAMPF(q.latitude, R(0), R(100)), R(100)), dynamic_range)
      balance == RDiv(CLAMPF(q.balance, R(-50), R(50)), R(100))
      contrast == CLAMPF(q.contrast, Rat(1, 10), R(2))
      toe_log0 == RSub(grey_log, RMul(RDiv(latitude, dynamic_range),
                                      fabsf(RDiv(black_source, dynamic_range))))
      shoulder_log0 == RAdd(grey_log, RMul(RDiv(latitude, dynamic_range),
                                           fabsf(RDiv(white_source, dynamic_range))))
      linear_intercept == RSub(grey_display, RMul(contrast, grey_log))
      toe_display0 == RAdd(RMul(toe_log0, contrast), linear_intercept)
      shoulder_display0 == RAdd(RMul(shoulder_log0, contrast), linear_intercept)
      norm == sqrtf(RAdd(RMul(contrast, contrast), R(1)))
      coeff == RMul(RSub(R(0), RDiv(RMul(R(2), latitude), dynamic_range)), balance)
      toe_display == RAdd(toe_display0, RDiv(RMul(coeff, contrast), norm))
      shoulder_display == RAdd(shoulder_display0, RDiv(RMul(coeff, contrast), norm))
      toe_log == RAdd(toe_log0, RDiv(coeff, norm))
      shoulder_log == RAdd(shoulder_log0, RDiv(coeff, norm))
  IN  [x |-> <<black_log, toe_log, grey_log, shoulder_log, white_log>>,
       y |-> <<black_display, toe_display, grey_display, shoulder_display, white_display>>,
       contrast |-> contrast]

\* the linear central part: M1[2] and M2[2]
linear_offset(y1, slope, x1) == RSub(y1, RMul(slope, x1))

\* the system of the toe: its rows A0 and its right-hand side b0
toe_A0(shadows, Tl) ==
  LET Tl2 == RMul(Tl, Tl)
      Tl3 == RMul(Tl2, Tl)
      Tl4 == RMul(Tl3, Tl)
  IN  IF shadows = DT_FILMIC_CURVE_POLY_4
        THEN << <<R(0), R(0), R(0), R(0), R(1)>>,
                <<R(0), R(0), R(0), R(1), R(0)>>,
                <<Tl4, Tl3, Tl2, Tl, R(1)>>,
                <<RMul(R(4), Tl3), RMul(R(3), Tl2), RMul(R(2), Tl), R(1), R(0)>>,
                <<RMul(R(12), Tl2), RMul(R(6), Tl), R(2), R(0), R(0)>> >>
        ELSE << <<R(0), R(0), R(0), R(1)>>,
                <<Tl3, Tl2, Tl, R(1)>>,
                <<RMul(R(3), Tl2), RMul(R(2), Tl), R(1), R(0)>>,
                <<RMul(R(6), Tl), R(2), R(0), R(0)>> >>

toe_b0_at_grey_node(shadows, y, slope) ==
  IF shadows = DT_FILMIC_CURVE_POLY_4
    THEN <<y[1], R(0), y[3], slope, R(0)>>
    ELSE <<y[1], y[3], slope, R(0)>>
toe_b0(shadows, y, slope) ==
  IF shadows = DT_FILMIC_CURVE_POLY_4
    THEN <<y[1], R(0), y[2], slope, R(0)>>
    ELSE <<y[1], y[2], slope, R(0)>>

\* the system of the shoulder: its rows A1 and its right-hand side b1
shoulder_A1(highlights, Sl) ==
  LET Sl2 == RMul(Sl, Sl)
      Sl3 == RMul(Sl2, Sl)
      Sl4 == RMul(Sl3, Sl)
  IN  IF highlights = DT_FILMIC_CURVE_POLY_3
        THEN << <<R(1), R(1), R(1), R(1)>>,
                <<Sl3, Sl2, Sl, R(1)>>,
                <<RMul(R(3), Sl2), RMul(R(2), Sl), R(1), R(0)>>,
                <<RMul(R(6), Sl), R(2), R(0), R(0)>> >>
        ELSE << <<R(1), R(1), R(1), R(1), R(1)>>,
                <<R(4), R(3), R(2), R(1), R(0)>>,
                <<Sl4, Sl3, Sl2, Sl, R(1)>>,
                <<RMul(R(4), Sl3), RMul(R(3), Sl2), RMul(R(2), Sl), R(1), R(0)>>,
                <<RMul(R(12), Sl2), RMul(R(6), Sl), R(2), R(0), R(0)>> >>

shoulder_b1(highlights, y, slope) ==
  IF highlights = DT_FILMIC_CURVE_POLY_3
    THEN <<y[5], y[4], slope, R(0)>>
    ELSE <<y[5], R(0), y[4], slope, R(0)>>

\* the coefficients <<M1, M2, M3, M4, M5>> of a segment from the solved system,
\* which lists them from the highest degree down
segment_coefficients(sol, order) ==
  IF order = ORDER_4 THEN <<sol[5], sol[4], sol[3], sol[2], sol[1]>>
  ELSE <<sol[4], sol[3], sol[2], sol[1], R(0)>>

\* dt_iop_filmic_rgb_compute_spline: M[1] is the toe, M[2] the shoulder and M[3]
\* the linear part, each <<M1, M2, M3, M4, M5>>
dt_iop_filmic_rgb_compute_spline(q) ==
  LET nodes == spline_nodes(q)
      x == nodes.x
      y == nodes.y
      slope == nodes.contrast
      toe_order == IF q.shadows = DT_FILMIC_CURVE_POLY_4 THEN ORDER_4 ELSE ORDER_3
      shoulder_order == IF q.highlights = DT_FILMIC_CURVE_POLY_3 THEN ORDER_3 ELSE ORDER_4
      b0 == gauss_solve(toe_A0(q.shadows, x[2]), toe_b0(q.shadows, y, slope), toe_order)
      b1 == gauss_solve(shoulder_A1(q.highlights, x[4]), shoulder_b1(q.highlights, y, slope),
                        shoulder_order)
  IN  [x |-> x, y |-> y, latitude_min |-> x[2], latitude_max |-> x[4],
       M |-> <<segment_coefficients(b0, toe_order),
               segment_coefficients(b1, shoulder_order),
               <<linear_offset(y[2], slope, x[2]), slope, R(0), R(0), R(0)>> >>]

\* M1 + x * (M2 + x * (M3 + x * (M4 + x * M5))) of one segment
segment_value(m, x) ==
  RAdd(m[1], RMul(x, RAdd(m[2], RMul(x, RAdd(m[3], RMul(x, RAdd(m[4], RMul(x, m[5]))))))))

filmic_spline(x, spline) ==
  IF RLess(x, spline.latitude_min) THEN segment_value(spline.M[1], x)
  ELSE IF RLess(spline.latitude_max, x) THEN segment_value(spline.M[2], x)
  ELSE segment_value(spline.M[3], x)

\* if(contrast < grey_display / grey_log) contrast = 1.0001f * grey_display / grey_log
clamped_contrast(contrast, grey_display, grey_log) ==
  IF RLess(contrast, RDiv(grey_display, grey_log))
    THEN RDiv(RMul(Rat(10001, 10000), grey_display), grey_log)
    ELSE contrast

\* commit_params: the contrast and the spline written to piece->data
commit_params_curve(q) ==
  LET grey_display == IF q.custom_grey
                        THEN powf_inverse(RDiv(q.grey_point_target, R(100)), q.output_power)
                        ELSE powf_inverse(Rat(1845, 10000), q.output_power)
      dynamic_range == RSub(q.white_point_source, q.black_point_source)
      grey_log == RDiv(fabsf(q.black_point_source), dynamic_range)
  IN  [contrast |-> clamped_contrast(q.contrast, grey_display, grey_log),
       grey_display |-> grey_display,
       grey_log |-> grey_log,
       spline |-> dt_iop_filmic_rgb_compute_spline(q)]

\* the curve parameters explored, all within their declared ranges: the exposure
\* points, latitudes and balances put the nodes on small fractions; where the
\* balance is not 0, the contrast makes sqrtf(contrast^2 + 1) exact
CurveContrasts == {Rat(5, 12), Rat(3, 4), Rat(4, 3), Rat(15, 8), R(3)}
CurveShapes ==
  {[black_point_source |-> R(-8), white_point_source |-> R(8), latitude |-> R(50),
    balance |-> R(0), contrast |-> c] : c \in CurveContrasts}
  \cup {[black_point_source |-> R(-8), white_point_source |-> R(4), latitude |-> R(25),
          balance |-> R(0), contrast |-> c] : c \in CurveContrasts}
  \cup {[black_point_source |-> R(-8), white_point_source |-> R(8), latitude |-> R(50),
          balance |-> Rat(-125, 8), contrast |-> Rat(3, 4)],
         [black_point_source |-> R(-8), white_point_source |-> R(4), latitude |-> R(25),
          balance |-> Rat(-125, 4), contrast |-> Rat(3, 4)],
         [black_point_source |-> R(-8), white_point_source |-> R(8), latitude |-> R(100),
          balance |-> R(-50), contrast |-> Rat(3, 4)]}
CurveGreys == {[custom_grey |-> TRUE, grey_point_target |-> R(25), output_power |-> R(2)],
               [custom_grey |-> TRUE, grey_point_target |-> Rat(25, 4), output_power |-> R(4)],
               [custom_grey |-> FALSE, grey_point_target |-> Rat(369, 20), output_power |-> R(1)]}
CurveTypes == {DT_FILMIC_CURVE_POLY_4, DT_FILMIC_CURVE_POLY_3}

CurveParams ==
  {[contrast |-> e.contrast, black_point_source |-> e.black_point_source,
    white_point_source |-> e.white_point_source, latitude |-> e.latitude, balance |-> e.balance,
    custom_grey |-> g.custom_grey, grey_point_target |-> g.grey_point_target,
    output_power |-> g.output_power, black_point_target |-> R(0), white_point_target |-> R(100),
    shadows |-> sh, highlights |-> hi] :
     e \in CurveShapes, g \in CurveGreys, sh \in CurveTypes, hi \in CurveTypes}

NoSpline == [x |-> <<>>, y |-> <<>>, latitude_min |-> R(0), latitude_max |-> R(0), M |-> <<>>]
NoCurveData == [contrast |-> R(0), grey_display |-> R(0), grey_log |-> R(0), spline |-> NoSpline]

CurveParked ==
  cv = [pc |-> "parked", p |-> CHOOSE q \in CurveParams : TRUE, d |-> NoCurveData,
        x |-> R(0), out |-> R(0)]

CurveInit ==
  cv \in [pc : {"edited"}, p : CurveParams, d : {NoCurveData}, x : {R(0)}, out : {R(0)}]

Curve_CommitParams ==
  /\ cv.pc = "edited"
  /\ cv' = [cv EXCEPT !.d = commit_params_curve(cv.p), !.pc = "committed"]
  /\ UNCHANGED curveFrame

\* the log-encoded values process hands to filmic_spline: the ends, the two
\* latitude bounds and the grey node
CurveSamples(spline) == {R(0), spline.latitude_min, spline.x[3], spline.latitude_max, R(1)}

\* process: one evaluation of the committed spline
Curve_FilmicSpline ==
  /\ cv.pc = "committed"
  /\ \E x \in CurveSamples(cv.d.spline) :
       cv' = [cv EXCEPT !.x = x, !.out = filmic_spline(x, cv.d.spline), !.pc = "evaluated"]
  /\ UNCHANGED curveFrame

CurveNext == Curve_CommitParams \/ Curve_FilmicSpline

(***************************************************************************)
(* inpaint_noise, run by a team of threads.                                *)
(***************************************************************************)
\* xoshiro256_init(1, state): the generator state is counted in calls of
\* dt_noise_generator since the seeding
SeededState == 0

\* dt_noise_generator(distribution, mu, sigma, flip, state): the sample is a
\* function of its arguments and of the generator state, which it advances
dt_noise_generator(distribution, mu, sigma, flip, state) ==
  [sample |-> [distribution |-> distribution, mu |-> mu, sigma |-> sigma, flip |-> flip,
               state |-> state],
   state |-> state + 1]

\* input * (1.0f - weight) + weight * noise: the noise term is 0 when the weight is
NoNoise == [distribution |-> "none", mu |-> R(0), sigma |-> R(0), flip |-> FALSE, state |-> 0]
blend(input, weight, noise) ==
  [base |-> RMul(input, RSub(R(1), weight)), weight |-> weight,
   noise |-> IF weight = R(0) THEN NoNoise ELSE noise]

\* the body of the loop for the pixel k / ch: the three channel values it writes
\* and the generator state it leaves
inpaint_pixel(pix, weight, noise_level, threshold, noise_distribution, state) ==
  LET draw(c, st) == dt_noise_generator(noise_distribution, pix[c + 1],
                                        RDiv(RMul(pix[c + 1], noise_level), threshold),
                                        c % 2 = 0, st)
      n0 == draw(0, state)
      n1 == draw(1, n0.state)
      n2 == draw(2, n1.state)
  IN  [out |-> <<blend(pix[1], weight, n0.sample), blend(pix[2], weight, n1.sample),
                 blend(pix[3], weight, n2.sample)>>,
       state |-> n2.state]

\* schedule(static): thread t of a team of T takes one block of consecutive
\* iterations, the first n % T threads one iteration more than the others
ChunkLen(t, T, n) == IF t < (n % T) THEN (n \div T) + 1 ELSE n \div T
ChunkStart(t, T, n) ==
  IF t < (n % T) THEN t * ((n \div T) + 1)
  ELSE ((n % T) * ((n \div T) + 1)) + ((t - (n % T)) * (n \div T))

NoiseRuns == {1, 2}
Threads == 0..(MaxThreads - 1)

\* what inpainted holds of a pixel before the loop writes it
Unwritten == <<"unwritten", "unwritten", "unwritten">>

NoiseImage == [k \in 1..NoisePix |-> <<R(k), R(2 * k), R(3), R(1)>>]
NoiseMasks == {[k \in 1..NoisePix |-> R(0)], [k \in 1..NoisePix |-> Rat(1, 2)],
               [k \in 1..NoisePix |-> IF k % 2 = 0 THEN R(1) ELSE R(0)]}

NoiseParked ==
  nz = [pc |-> [r \in NoiseRuns |-> "parked"], in |-> NoiseImage,
        mask |-> [k \in 1..NoisePix |-> R(0)], noise_level |-> R(0), threshold |-> R(1),
        noise_distribution |-> "uniform", team |-> [r \in NoiseRuns |-> 1],
        state |-> [r \in NoiseRuns |-> [t \in Threads |-> SeededState]],
        done |-> [r \in NoiseRuns |-> [t \in Threads |-> 0]],
        inpainted |-> [r \in NoiseRuns |-> [k \in 1..NoisePix |-> Unwritten]]]

\* two calls with the same in, mask and parameters, each with its own team
NoiseInit ==
  nz \in [pc : {[r \in NoiseRuns |-> "call"]}, in : {NoiseImage}, mask : NoiseMasks,
          noise_level : {Rat(1, 10)}, threshold : {R(16)},
          noise_distribution : {"uniform", "gaussian", "poissonian"},
          team : [NoiseRuns -> 1..MaxThreads],
          state : {[r \in NoiseRuns |-> [t \in Threads |-> SeededState]]},
          done : {[r \in NoiseRuns |-> [t \in Threads |-> 0]]},
          inpainted : {[r \in NoiseRuns |-> [k \in 1..NoisePix |-> Unwritten]]}]

\* xoshiro256_init(1, state), then the parallel region starts: firstprivate gives
\* each thread its own copy of the seeded state
Noise_Seed(r) ==
  /\ nz.pc[r] = "call"
  /\ nz' = [nz EXCEPT !.pc[r] = "loop",
                      !.state[r] = [t \in Threads |-> SeededState]]
  /\ UNCHANGED noiseFrame

\* thread t runs the next iteration of its block
Noise_Pixel(r, t) ==
  /\ nz.pc[r] = "loop"
  /\ t < nz.team[r]
  /\ nz.done[r][t] < ChunkLen(t, nz.team[r], NoisePix)
  /\ LET k == ChunkStart(t, nz.team[r], NoisePix) + nz.done[r][t] + 1
         res == inpaint_pixel(nz.in[k], nz.mask[k], nz.noise_level, nz.threshold,
                              nz.noise_distribution, nz.state[r][t])
     IN  nz' = [nz EXCEPT !.inpainted[r][k] = res.out,
                          !.state[r][t] = res.state,
                          !.done[r][t] = nz.done[r][t] + 1]
  /\ UNCHANGED noiseFrame

\* the end of the parallel region: every thread has run its block
Noise_Return(r) ==
  /\ nz.pc[r] = "loop"
  /\ \A t \in Threads : t < nz.team[r] => nz.done[r][t] = ChunkLen(t, nz.team[r], NoisePix)
  /\ nz' = [nz EXCEPT !.pc[r] = "returned"]
  /\ UNCHANGED noiseFrame

Noise_SeedAny == \E r \in NoiseRuns : Noise_Seed(r)
Noise_PixelAny == \E r \in NoiseRuns, t \in Threads : Noise_Pixel(r, t)
Noise_ReturnAny == \E r \in NoiseRuns : Noise_Return(r)

NoiseNext == Noise_SeedAny \/ Noise_PixelAny \/ Noise_ReturnAny

(***************************************************************************)
(* The per-pixel routines: get_pixel_norm, compute_ratios, restore_ratios  *)
(* and the mask weights from the committed threshold and feather.          *)
(***************************************************************************)
\* 1.52587890625e-05f
NORM_MIN == Rat(1, 65536)

\* the norm without fabsf: (R^3 + G^3 + B^3) / (R^2 + G^2 + B^2)
pixel_rgb_norm_power_signed(pixel) ==
  LET RGB_square(c) == RMul(pixel[c], pixel[c])
      RGB_cubic(c) == RMul(RGB_square(c), pixel[c])
      numerator == RAdd(RAdd(RGB_cubic(1), RGB_cubic(2)), RGB_cubic(3))
      denominator == RAdd(RAdd(RGB_square(1), RGB_square(2)), RGB_square(3))
  IN  IF denominator = R(0) THEN R(0) ELSE RDiv(numerator, denominator)

\* numerator / fmaxf(denominator, 1e-12f): 1e-12 is below the square of every
\* non-zero channel of the model, and the numerator is 0 when the denominator is
pixel_rgb_norm_power(pixel) ==
  LET value(c) == fabsf(pixel[c])
      RGB_square(c) == RMul(value(c), value(c))
      RGB_cubic(c) == RMul(RGB_square(c), value(c))
      numerator == RAdd(RAdd(RGB_cubic(1), RGB_cubic(2)), RGB_cubic(3))
      denominator == RAdd(RAdd(RGB_square(1), RGB_square(2)), RGB_square(3))
  IN  IF denominator = R(0) THEN R(0) ELSE RDiv(numerator, denominator)

\* the fixed fallback luminance formula, its weights 0.2225045, 0.7168786 and
\* 0.0606169 kept to four decimals
dt_camera_rgb_luminance(pixel) ==
  RAdd(RAdd(RMul(pixel[1], Rat(2225, 10000)), RMul(pixel[2], Rat(7169, 10000))),
       RMul(pixel[3], Rat(606, 10000)))

\* the luminance of a linear working profile: the Y row of its matrix
dt_ioppr_get_rgb_matrix_luminance(pixel, work_profile) ==
  RAdd(RAdd(RMul(pixel[1], work_profile.matrix_in[1]), RMul(pixel[2], work_profile.matrix_in[2])),
       RMul(pixel[3], work_profile.matrix_in[3]))

\* a NULL work_profile
NoProfile == [present |-> FALSE, matrix_in |-> <<R(0), R(0), R(0)>>]
\* linear Rec. 2020
Rec2020 == [present |-> TRUE,
            matrix_in |-> <<Rat(2627, 10000), Rat(6780, 10000), Rat(593, 10000)>>]
WorkProfiles == {NoProfile, Rec2020}

\* grouping is how the build groups the two fmaxf of the maximum
get_pixel_norm(pixel, variant, work_profile, grouping) ==
  IF variant = DT_FILMIC_METHOD_MAX_RGB
    THEN fmaxf_grouped(<<pixel[1], pixel[2], pixel[3]>>, grouping)
  ELSE IF variant = DT_FILMIC_METHOD_POWER_NORM
    THEN pixel_rgb_norm_power(pixel)
  ELSE IF variant = DT_FILMIC_METHOD_EUCLIDEAN_NORM
    THEN sqrtf(RAdd(RAdd(sqf(pixel[1]), sqf(pixel[2])), sqf(pixel[3])))
  ELSE IF work_profile.present
    THEN dt_ioppr_get_rgb_matrix_luminance(pixel, work_profile)
    ELSE dt_camera_rgb_luminance(pixel)

\* const float norm = fmaxf(get_pixel_norm(in + k, variant, work_profile), NORM_MIN)
\* get_pixel_norm is inlined: with the maximum of the channels the build groups
\* the three fmaxf of the statement, NORM_MIN being operand 4; with the other
\* norms the first entry of the grouping is what this fmaxf picks
ratio_norm_unclamped(pixel, variant, work_profile, grouping) ==
  get_pixel_norm(pixel, variant, work_profile, SourceGrouping(3))
ratio_norm(pixel, variant, work_profile, grouping) ==
  IF variant = DT_FILMIC_METHOD_MAX_RGB
    THEN fmaxf_grouped(<<pixel[1], pixel[2], pixel[3], NORM_MIN>>, grouping)
    ELSE fmaxf(get_pixel_norm(pixel, variant, work_profile, SourceGrouping(3)), NORM_MIN,
               grouping[1])

\* the two buffers compute_ratios writes; the fourth float of ratios is not written
compute_ratios(inb, ratios, variant, work_profile, grouping) ==
  [norms |-> [k \in 1..Len(inb) |-> ratio_norm(inb[k], variant, work_profile, grouping)],
   ratios |-> [k \in 1..Len(inb) |->
                 LET norm == ratio_norm(inb[k], variant, work_profile, grouping)
                 IN  <<RDiv(inb[k][1], norm), RDiv(inb[k][2], norm), RDiv(inb[k][3], norm),
                       ratios[k][4]>>]]

\* ratios[k + c] *= norms[k / ch] for c < 3
restore_ratios(ratios, norms) ==
  [k \in 1..Len(ratios) |->
     <<RMul(ratios[k][1], norms[k]), RMul(ratios[k][2], norms[k]), RMul(ratios[k][3], norms[k]),
       ratios[k][4]>>]

\* the feather committed in EV, without exp2f
commit_params_mask_feather_in_stops(q) ==
  LET grey_source == IF q.custom_grey THEN RDiv(q.grey_point_source, R(100)) ELSE Rat(1845, 10000)
      white_source == q.white_point_source
  IN  [reconstruct_threshold |-> RMul(exp2f(RAdd(white_source, q.reconstruct_threshold)), grey_source),
       reconstruct_feather |-> RDiv(R(12), q.reconstruct_feather)]

\* commit_params: d->reconstruct_threshold and d->reconstruct_feather
commit_params_mask(q) ==
  LET grey_source == IF q.custom_grey THEN RDiv(q.grey_point_source, R(100)) ELSE Rat(1845, 10000)
      white_source == q.white_point_source
  IN  [reconstruct_threshold |-> RMul(exp2f(RAdd(white_source, q.reconstruct_threshold)), grey_source),
       reconstruct_feather |-> exp2f(RDiv(R(12), q.reconstruct_feather))]

\* the channel values of the buffers explored: negative, zero, small, large
ChannelValues == <<R(-1), R(0), Rat(1, 4), R(2)>>
\* the buffer whose pixels are the triples with first channel ChannelValues[n]
PixelBuffer(n) ==
  [k \in 1..16 |-> <<ChannelValues[n], ChannelValues[((k - 1) \div 4) + 1],
                     ChannelValues[((k - 1) % 4) + 1], Rat(k % 3, 2)>>]
\* a 3x3 patch of value 1.0 in a 5x5 image of value 1/16
WhitePatch ==
  [k \in 1..25 |-> IF ((k - 1) \div 5) \in 1..3 /\ ((k - 1) % 5) \in 1..3
                     THEN <<R(1), R(1), R(1), R(1)>>
                     ELSE <<Rat(1, 16), Rat(1, 16), Rat(1, 16), R(1)>>]
PixelBuffers == {PixelBuffer(n) : n \in 1..4} \cup {WhitePatch}

\* threshold and feather at 3 stops; the white point and the grey within their ranges
MaskParams ==
  [white_point_source : {R(0), R(4)}, reconstruct_threshold : {R(3)}, reconstruct_feather : {R(3)},
   custom_grey : {TRUE}, grey_point_source : {Rat(25, 16), Rat(25, 2)}]
  \cup [white_point_source : {R(0), R(4)}, reconstruct_threshold : {R(3)},
        reconstruct_feather : {R(3)}, custom_grey : {FALSE}, grey_point_source : {Rat(369, 20)}]

NoMaskData == [reconstruct_threshold |-> R(0), reconstruct_feather |-> R(0)]

PixelParked ==
  px = [pc |-> "parked", buf |-> <<>>, variant |-> 0, work_profile |-> NoProfile,
        p |-> CHOOSE q \in MaskParams : TRUE, d |-> NoMaskData,
        norms |-> <<>>, ratios |-> <<>>, mask |-> <<>>]

PixelInit ==
  px \in [pc : {"start"}, buf : PixelBuffers, variant : 0..4, work_profile : WorkProfiles,
          p : MaskParams, d : {NoMaskData}, norms : {<<>>}, ratios : {<<>>}, mask : {<<>>}]

\* the groupings of n operands that bear on a buffer: without a NaN in the
\* buffer they all give the same result
BufferGroupings(buf, n) ==
  IF \E k \in 1..Len(buf), c \in 1..3 : IsNaN(buf[k][c]) THEN Groupings(1..n)
  ELSE {SourceGrouping(n)}

\* get_pixel_norm on every pixel of the buffer
Px_GetPixelNorm ==
  /\ px.pc = "start"
  /\ \E grouping \in BufferGroupings(px.buf, 3) :
       px' = [px EXCEPT !.norms = [k \in 1..Len(px.buf) |->
                                     get_pixel_norm(px.buf[k], px.variant, px.work_profile,
                                                    grouping)],
                        !.pc = "norms"]
  /\ UNCHANGED pixelFrame

\* compute_ratios(in, norms, ratios, ...) on freshly allocated norms and ratios
Px_ComputeRatios ==
  /\ px.pc = "start"
  /\ \E grouping \in BufferGroupings(px.buf, 4) :
       LET fresh == [k \in 1..Len(px.buf) |-> <<Indeterminate, Indeterminate, Indeterminate,
                                                Indeterminate>>]
           r == compute_ratios(px.buf, fresh, px.variant, px.work_profile, grouping)
       IN  px' = [px EXCEPT !.norms = r.norms, !.ratios = r.ratios, !.pc = "ratios"]
  /\ UNCHANGED pixelFrame

\* restore_ratios(ratios, norms, ...)
Px_RestoreRatios ==
  /\ px.pc = "ratios"
  /\ px' = [px EXCEPT !.ratios = restore_ratios(px.ratios, px.norms), !.pc = "restored"]
  /\ UNCHANGED pixelFrame

\* commit_params, then the mask of process
Px_MaskClippedPixels ==
  /\ px.pc = "start"
  /\ LET d == commit_params_mask(px.p)
         normalize == RDiv(d.reconstruct_feather, d.reconstruct_threshold)
     IN  px' = [px EXCEPT !.d = d,
                          !.mask = mask_weights(px.buf, normalize, d.reconstruct_feather),
                          !.pc = "masked"]
  /\ UNCHANGED pixelFrame

PixelNext == Px_GetPixelNorm \/ Px_ComputeRatios \/ Px_RestoreRatios \/ Px_MaskClippedPixels

(***************************************************************************)
(* The specifications.                                                     *)
(***************************************************************************)
(* One pixel of a blur pass, tap by tap.                                   *)
(***************************************************************************)
\* an index past the end of every buffer: what a negative value becomes as a size_t
SIZE_T_WRAPPED == 2147483647

\* const size_t index_x = mult * (jj - (FSIZE - 1) / 2) + j, in the fast track
FastTrackIndex(mult, jj, j) == IF TapIndex(mult, jj, j) < 0 THEN SIZE_T_WRAPPED ELSE TapIndex(mult, jj, j)

\* the index along the filtered axis that tap jj of the pixel at `pos` reads
tap_index(check, mult, jj, pos, bound_low, bound_high) ==
  IF check THEN ClampIndex(TapIndex(mult, jj, pos), bound_low, bound_high)
  ELSE FastTrackIndex(mult, jj, pos)

TapPasses == {"blur_2D_Bspline_vertical", "blur_2D_Bspline_horizontal"}

\* the position along the filtered axis and the length of that axis: the vertical
\* pass filters along j within a line, the horizontal pass along i within a column
TapPos(t) == IF t.pass = "blur_2D_Bspline_vertical" THEN t.j ELSE t.i
TapDim(t) == IF t.pass = "blur_2D_Bspline_vertical" THEN t.width ELSE t.height

TapParked ==
  tp = [pc |-> "parked", pass |-> "blur_2D_Bspline_vertical", width |-> 1, height |-> 1,
        mult |-> 1, i |-> 0, j |-> 0, check |-> TRUE, jj |-> 0, index |-> 0, read |-> 0,
        written |-> -1]

\* regions of one pixel, of fewer pixels than two steps and of more, and the
\* steps 2^s of the scales
TapInit ==
  \E w \in {1, 6, 9}, h \in {1, 5, 9}, s \in 0..MaxTapScale :
    \E ii \in 0..(h - 1), jj \in 0..(w - 1), pass \in TapPasses :
      tp = [pc |-> "check", pass |-> pass, width |-> w, height |-> h, mult |-> Pow2(s),
            i |-> ii, j |-> jj, check |-> TRUE, jj |-> 0, index |-> 0, read |-> 0,
            written |-> -1]

\* const int check = !((j > 2 * mult) && (j < width - 2 * mult))
Tap_Check ==
  /\ tp.pc = "check"
  /\ tp' = [tp EXCEPT !.check = BoundaryZone(TapPos(tp), TapDim(tp), tp.mult), !.pc = "taps"]
  /\ UNCHANGED tapFrame

\* accumulator[c] += filter[jj] * in[(i * width + index_x) * ch + c], the bounds
\* being 0 and the last index of the axis
Tap_Read ==
  /\ tp.pc = "taps"
  /\ tp.jj < FSIZE
  /\ LET index == tap_index(tp.check, tp.mult, tp.jj, TapPos(tp), 0, TapDim(tp) - 1)
     IN  tp' = [tp EXCEPT !.index = index,
                          !.read = IF tp.pass = "blur_2D_Bspline_vertical"
                                     THEN tp.i * tp.width + index
                                     ELSE index * tp.width + tp.j,
                          !.jj = tp.jj + 1]
  /\ UNCHANGED tapFrame

\* out[index_out + c] = accumulator[c]
Tap_Store ==
  /\ tp.pc = "taps"
  /\ tp.jj = FSIZE
  /\ tp' = [tp EXCEPT !.written = tp.i * tp.width + tp.j, !.pc = "stored"]
  /\ UNCHANGED tapFrame

TapNext == Tap_Check \/ Tap_Read \/ Tap_Store

(***************************************************************************)
(* The parallel loops: #pragma omp parallel for, schedule(simd:static),    *)
(* run by a team of threads; each thread runs its block of iterations in   *)
(* order, the threads in any interleaving.                                 *)
(***************************************************************************)
LoopRoutines ==
  {"mask_clipped_pixels", "inpaint_noise", "init_reconstruct", "wavelets_detail_level_RGB",
   "wavelets_reconstruct_RGB", "wavelets_reconstruct_ratios", "filmic_chroma_v2"}

\* the pixels of the loop with the reduction: one more than MIN_CLIPPED
LoopPix == MIN_CLIPPED + 1

\* the pixels of the buffers of a loop
LoopPixOf(routine) == IF routine = "mask_clipped_pixels" THEN LoopPix ELSE SmallLoopPix

\* the step of k: every float in init_reconstruct (k++), the first float of
\* every pixel (k += ch) in the others
LoopStride(routine) == IF routine = "init_reconstruct" THEN 1 ELSE CH

\* the number of iterations: height * width * ch / step
LoopCount(routine) == (LoopPixOf(routine) * CH) \div LoopStride(routine)

\* k / ch taken on half the pixels
PixelOfFloatHalved(k) == k \div (2 * CH)

\* mask[k / ch], texture[k / ch]
PixelOfFloat(k) == k \div CH

\* the floats iteration k stores
LoopWrites(routine, k) ==
  CASE routine = "mask_clipped_pixels" -> {<<"mask", PixelOfFloat(k)>>}
    [] routine = "inpaint_noise" -> {<<"inpainted", k + c>> : c \in 0..2}
    [] routine = "init_reconstruct" -> {<<"reconstructed", k>>}
    [] routine = "wavelets_detail_level_RGB" ->
         {<<"HF", k + c>> : c \in 0..2} \cup {<<"texture", PixelOfFloat(k)>>}
    [] routine \in {"wavelets_reconstruct_RGB", "wavelets_reconstruct_ratios"} ->
         {<<"reconstructed", k + c>> : c \in 0..2}
    [] OTHER -> {<<"out", k + c>> : c \in 0..2}

\* the input of mask_clipped_pixels: the first bright pixels have an argument
\* of 0, the others of 16, with normalize = 1 and feathering = 16
LoopImage(bright) ==
  [k \in 1..LoopPix |-> IF k <= bright THEN <<R(16), R(0), R(0), R(1)>>
                        ELSE <<R(0), R(0), R(0), R(1)>>]
LoopImages == {LoopImage(LoopPix), LoopImage(MIN_CLIPPED)}

\* clipped += (4.f > argument)
clipped_increment(pix, normalize, feathering) ==
  IF IsClipped(pix_argument(pix, normalize, feathering)) THEN 1 ELSE 0

LoopParked ==
  lp = [pc |-> "parked", routine |-> "mask_clipped_pixels", inbuf |-> LoopImage(0),
        team |-> 1, progress |-> [t \in Threads |-> 0], writers |-> {},
        private |-> [t \in Threads |-> 0], joined |-> {}, clipped |-> 0, ret |-> 0]

\* int clipped = 0, and the private copy of each thread of the team at 0
LoopInit ==
  lp \in [pc : {"loop"}, routine : LoopRoutines, inbuf : LoopImages, team : 1..MaxThreads,
          progress : {[t \in Threads |-> 0]}, writers : {{}},
          private : {[t \in Threads |-> 0]}, joined : {{}}, clipped : {0}, ret : {0}]

\* thread t runs the next iteration of its block
Loop_Iteration(t) ==
  /\ lp.pc = "loop"
  /\ t < lp.team
  /\ lp.progress[t] < ChunkLen(t, lp.team, LoopCount(lp.routine))
  /\ LET k == (ChunkStart(t, lp.team, LoopCount(lp.routine)) + lp.progress[t])
                * LoopStride(lp.routine)
     IN  lp' = [lp EXCEPT
                  !.progress[t] = lp.progress[t] + 1,
                  !.writers = lp.writers
                                \cup {[loc |-> loc, k |-> k] : loc \in LoopWrites(lp.routine, k)},
                  !.private[t] =
                     IF lp.routine = "mask_clipped_pixels"
                       THEN lp.private[t] + clipped_increment(lp.inbuf[PixelOfFloat(k) + 1],
                                                              R(1), R(16))
                       ELSE lp.private[t]]
  /\ UNCHANGED loopFrame

\* reduction(+:clipped): having run its block, thread t adds its private copy
Loop_Reduce(t) ==
  /\ lp.pc = "loop"
  /\ t < lp.team
  /\ lp.progress[t] = ChunkLen(t, lp.team, LoopCount(lp.routine))
  /\ t \notin lp.joined
  /\ lp' = [lp EXCEPT !.clipped = lp.clipped + lp.private[t], !.joined = lp.joined \cup {t}]
  /\ UNCHANGED loopFrame

\* return (clipped > 9), a gint
Loop_Return ==
  /\ lp.pc = "loop"
  /\ lp.joined = 0..(lp.team - 1)
  /\ lp' = [lp EXCEPT !.pc = "returned",
                      !.ret = IF lp.routine = "mask_clipped_pixels" /\ WorthIt(lp.clipped)
                                THEN 1 ELSE 0]
  /\ UNCHANGED loopFrame

Loop_IterationAny == \E t \in Threads : Loop_Iteration(t)
Loop_ReduceAny == \E t \in Threads : Loop_Reduce(t)

LoopNext == Loop_IterationAny \/ Loop_ReduceAny \/ Loop_Return

(***************************************************************************)
(* The mask display switch: gui_init, gui_update, gui_focus,               *)
(* show_mask_callback and the test of process.                             *)
(***************************************************************************)
\* g->show_mask = !(g->show_mask) without the test of the reset counter
show_mask_toggled_ignoring_reset(reset, show_mask) == ~show_mask

\* if(self->dt->gui->reset) return; g->show_mask = !(g->show_mask)
show_mask_toggled(reset, show_mask) == IF reset # 0 THEN show_mask ELSE ~show_mask

NoProcessRun == [gui_attached |-> FALSE, full |-> FALSE, mask_allocated |-> FALSE,
                 out |-> "none"]

ShowMaskParked ==
  sm = [pc |-> "parked", show_mask |-> FALSE, reset |-> 0, last |-> "none",
        lost_focus |-> FALSE, callback_since |-> FALSE, run |-> NoProcessRun]

\* gui_data is fresh from malloc: show_mask holds anything
ShowMaskInit ==
  sm \in [pc : {"allocated"}, show_mask : BOOLEAN, reset : {0}, last : {"none"},
          lost_focus : {FALSE}, callback_since : {FALSE}, run : {NoProcessRun}]

ShowMask_GuiInit ==
  /\ sm.pc = "allocated"
  /\ sm' = [sm EXCEPT !.show_mask = FALSE, !.pc = "ready", !.last = "gui_init"]
  /\ UNCHANGED showMaskFrame

ShowMask_GuiUpdate ==
  /\ sm.pc = "ready"
  /\ sm' = [sm EXCEPT !.show_mask = FALSE, !.last = "gui_update"]
  /\ UNCHANGED showMaskFrame

ShowMask_GuiFocus ==
  /\ sm.pc = "ready"
  /\ \E focus_in \in BOOLEAN :
       sm' = IF ~focus_in
               THEN [sm EXCEPT !.show_mask = FALSE, !.last = "gui_focus_out",
                               !.lost_focus = TRUE, !.callback_since = FALSE]
               ELSE [sm EXCEPT !.last = "gui_focus_in"]
  /\ UNCHANGED showMaskFrame

ShowMask_Callback ==
  /\ sm.pc = "ready"
  /\ sm' = [sm EXCEPT !.show_mask = show_mask_toggled(sm.reset, sm.show_mask),
                      !.last = "show_mask_callback", !.callback_since = TRUE]
  /\ UNCHANGED showMaskFrame

\* ++darktable.gui->reset and --darktable.gui->reset around the widget updates
ShowMask_ResetRaise ==
  /\ sm.pc = "ready"
  /\ sm.reset < MaxReset
  /\ sm' = [sm EXCEPT !.reset = sm.reset + 1, !.last = "reset"]
  /\ UNCHANGED showMaskFrame

ShowMask_ResetLower ==
  /\ sm.pc = "ready"
  /\ sm.reset > 0
  /\ sm' = [sm EXCEPT !.reset = sm.reset - 1, !.last = "reset"]
  /\ UNCHANGED showMaskFrame

\* process on 4 channels: the mask display or the tone-mapped image.  The mask is
\* written by mask_clipped_pixels before the test of the display reads the
\* pointer: when dt_alloc_sse_ps has returned NULL the run ends there, on the
\* write through the NULL pointer, and nothing is written to out
ShowMask_Process ==
  /\ sm.pc = "ready"
  /\ \E gui_attached \in BOOLEAN, full \in BOOLEAN, mask_allocated \in BOOLEAN :
       sm' = [sm EXCEPT !.last = "process",
                        !.pc = IF mask_allocated THEN "ready" ELSE "crashed",
                        !.run = [gui_attached |-> gui_attached, full |-> full,
                                 mask_allocated |-> mask_allocated,
                                 out |-> IF ~mask_allocated THEN "crash"
                                         ELSE IF ShowMaskTest(gui_attached, full, sm.show_mask)
                                           THEN "mask" ELSE "image"]]
  /\ UNCHANGED showMaskFrame

ShowMaskNext ==
  \/ ShowMask_GuiInit
  \/ ShowMask_GuiUpdate
  \/ ShowMask_GuiFocus
  \/ ShowMask_Callback
  \/ ShowMask_ResetRaise
  \/ ShowMask_ResetLower
  \/ ShowMask_Process

(***************************************************************************)
(* filmic_chroma_v2 on one pixel                                           *)
(***************************************************************************)
\* fminf(fmaxf(x, 0.0f), 1.0f): on a NaN the builds give NaN, 0 or 1;
\* clamped[1] is what the fmaxf picks, clamped[2] what the fminf picks
clamp_simd(x, clamped) == fminf(fmaxf(x, R(0), clamped[1]), R(1), clamped[2])

\* powf(base, exponent) for the hardnesses 1, 2 and 4
powf(base, exponent) ==
  IF exponent = R(1) THEN base ELSE IF exponent = R(2) THEN sqf(base) ELSE sqf(sqf(base))

\* expf on the negative numbers, as exp2f(t * log2(e)) with log2(e) kept as
\* 369/256 and the result kept to 1/1024, which is 0 below -8
expf(t) ==
  IF IsNaN(t) THEN NaN
  ELSE IF RLess(t, R(-8)) THEN R(0)
  ELSE Rat(Floor(RMul(exp2f(RMul(t, Rat(369, 256))), R(1024))), 1024)

\* log2f(0) is -inf, which the division keeps infinite and clamp_simd brings
\* to 0, or to 1 under a negative dynamic range
log_tonemapping_v2(x, grey, black, dynamic_range, clamped) ==
  IF RDiv(x, grey) = R(0) /\ ~IsNaN(dynamic_range)
    THEN IF dynamic_range[1] < 0 THEN R(1) ELSE R(0)
    ELSE clamp_simd(RDiv(RSub(log2f(RDiv(x, grey)), black), dynamic_range), clamped)

\* expf(-radius * radius / sigma * sat2) with sat2 = 0.5f / sqrtf(saturation):
\* a saturation or a sigma of 0 makes the factor infinite.  The exponent is
\* 0 * inf = NaN at radius 0; elsewhere it is -inf, where expf is 0, unless the
\* build reorders the products of the expression under fast-math and gets NaN
\* there too: nan_from_inf is that choice
desaturate_key(radius, sigma, saturation, nan_from_inf) ==
  IF saturation = R(0) \/ sigma = R(0)
    THEN IF radius = R(0) \/ nan_from_inf THEN NaN ELSE R(0)
    ELSE LET sat2 == RDiv(Rat(1, 2), sqrtf(saturation))
             quotient == RDiv(sqf(radius), sigma)
         IN  \* the product is formed only where expf is not 0 to 1/1024
             IF RLess(RDiv(R(8), sat2), quotient) THEN R(0)
             ELSE expf(RMul(RSub(R(0), quotient), sat2))

filmic_desaturate_v2(x, sigma_toe, sigma_shoulder, saturation, nan_from_inf) ==
  LET key_toe == desaturate_key(x, sigma_toe, saturation, nan_from_inf)
      key_shoulder == desaturate_key(RSub(R(1), x), sigma_shoulder, saturation, nan_from_inf)
  IN  RSub(saturation, RMul(RAdd(key_toe, key_shoulder), saturation))

\* filmic_chroma_v2, from its last lines to its first.  Each step gives the set
\* of the pixels the builds can write: one pixel unless a NaN has reached an
\* fminf, an fmaxf or the keys of the desaturation.
\* Penalize the ratios by the amount of clipping
penalized_channel(ratio, norm, max_pix) ==
  {clamp_simd(RMul(fmaxf(RAdd(ratio, RSub(R(1), max_pix)), R(0), build[1]), norm),
              <<build[2], build[3]>>) :
     build \in NanChoicesOn(3, IsNaN(ratio) \/ IsNaN(norm) \/ IsNaN(max_pix))}
\* if(max_pix > 1.0f): with a NaN the build takes the branch or not
chroma_v2_penalized(ratios, norm, pix_out, max_pix) ==
  (IF RLess(R(1), max_pix) \/ IsNaN(max_pix)
     THEN {<<r, g, b>> : r \in penalized_channel(ratios[1], norm, max_pix),
                         g \in penalized_channel(ratios[2], norm, max_pix),
                         b \in penalized_channel(ratios[3], norm, max_pix)}
     ELSE {})
  \cup (IF RLess(R(1), max_pix) THEN {} ELSE {pix_out})

\* Gamut mapping: max_pix of the pixel written
chroma_v2_gamut_mapped(ratios, norm, pix_out) ==
  UNION {chroma_v2_penalized(ratios, norm, pix_out, max_pix) :
           max_pix \in {fmaxf_grouped(pix_out, grouping) : grouping \in GroupingsOn(pix_out)}}

\* pix_out[c] = ratios[c] * norm
chroma_v2_applied(ratios, norm) ==
  chroma_v2_gamut_mapped(ratios, norm, [c \in 1..3 |-> RMul(ratios[c], norm)])

\* 1.0f - x in float: a value of x nearer to 0 than half the distance from 1.0f
\* to its neighbours, 2^-25 below and 2^-24 above, leaves 1.0f
float_one_minus(x) ==
  IF RLess(<<-1, 16777216>>, x) /\ RLess(x, <<1, 33554432>>) THEN R(1) ELSE RSub(R(1), x)

\* Re-apply ratios with saturation change
chroma_v2_desaturated(ratios, desaturation, norm) ==
  UNION {chroma_v2_applied(resaturated, norm) :
           resaturated \in {[c \in 1..3 |->
                               fmaxf(RAdd(ratios[c], RMul(RSub(R(1), ratios[c]),
                                                          float_one_minus(desaturation))),
                                     R(0), picks_first[c])] :
                               picks_first \in NanChoicesOn(3, IsNaN(desaturation)
                                                  \/ \E c \in 1..3 : IsNaN(ratios[c]))}}

\* the log-encoded norm gives the desaturation and, through the spline and the
\* transfer function of the display, the norm of the output
chroma_v2_tone_mapped(ratios, norm_log, d, spline) ==
  UNION {chroma_v2_desaturated(ratios, mapped[1], mapped[2]) :
           mapped \in {<<filmic_desaturate_v2(norm_log, d.sigma_toe, d.sigma_shoulder,
                                              d.saturation, build[1]),
                         powf(clamp_simd(filmic_spline(norm_log, spline),
                                         <<build[2], build[3]>>),
                              d.output_power)>> :
                         build \in NanChoicesOn(3, IsNaN(norm_log) \/ d.saturation = R(0)
                                      \/ d.sigma_toe = R(0) \/ d.sigma_shoulder = R(0))}}

\* Sanitize the ratios; if(min_ratios < 0.0f): with a NaN the build takes the
\* branch or not
chroma_v2_sanitized(ratios, min_ratios) ==
  (IF RLess(min_ratios, R(0)) \/ IsNaN(min_ratios)
     THEN {[c \in 1..3 |-> RSub(ratios[c], min_ratios)]} ELSE {})
  \cup (IF RLess(min_ratios, R(0)) THEN {} ELSE {ratios})

chroma_v2_sane_ratios(ratios) ==
  UNION {chroma_v2_sanitized(ratios, fminf_grouped(ratios, grouping)) :
           grouping \in GroupingsOn(ratios)}

\* Save the ratios, log tone-mapping of the norm
chroma_v2_of_norm(pix_in, norm, d, spline) ==
  UNION {chroma_v2_tone_mapped(ratios, norm_log, d, spline) :
           ratios \in chroma_v2_sane_ratios([c \in 1..3 |-> RDiv(pix_in[c], norm)]),
           norm_log \in {log_tonemapping_v2(norm, d.grey_source, d.black_source,
                                            d.dynamic_range, clamped) :
                          clamped \in NanChoicesOn(2, ~RLess(R(0), norm)
                                        \/ ~RLess(R(0), d.grey_source)
                                        \/ IsNaN(d.black_source)
                                        \/ ~RLess(R(0), fabsf(d.dynamic_range)))}}

\* the pixels filmic_chroma_v2 can write for one pixel of the input: three colour floats
filmic_chroma_v2(pix_in, variant, work_profile, d, spline) ==
  UNION {chroma_v2_of_norm(pix_in, norm, d, spline) :
           norm \in {ratio_norm(pix_in, variant, work_profile, grouping) :
                       grouping \in BufferGroupings(<<pix_in>>, 4)}}

\* the nearest float of a fraction of denominator 2^k: 24 significant bits,
\* ties to the even one
float24(q) ==
  LET k == FloorLog2(<<q[2], 1>>)
      shift == k - 23 + FloorLog2(fabsf(q))
      whole == Abs(q[1]) \div Pow2(shift)
      rest == Abs(q[1]) % Pow2(shift)
      rounded == IF 2 * rest > Pow2(shift) \/ (2 * rest = Pow2(shift) /\ whole % 2 = 1)
                   THEN whole + 1 ELSE whole
      sign == IF q[1] < 0 THEN -1 ELSE 1
  IN  IF q[1] = 0 \/ shift <= 0 THEN q
      ELSE RMul(R(sign * rounded), Rat(Pow2(shift), q[2]))

\* 0.01f, the float nearest to 1 / 100
FLOAT_HUNDREDTH == <<5368709, 536870912>>

\* d->saturation = (2.0f * p->saturation / 100.0f + 1.0f): the division and the
\* sum as written, or, in a build that has fused multiply-add instructions
\* (fp-contract=fast and fast-math are set for the file), the product by 0.01f
\* and the sum in one instruction, rounded once.  At -50 % the first gives 0,
\* the second 3 * 2^-27
committed_saturation(saturation, contracted) ==
  IF contracted
    THEN float24(RAdd(RMul(RMul(R(2), saturation), FLOAT_HUNDREDTH), R(1)))
    ELSE RAdd(RDiv(RMul(R(2), saturation), R(100)), R(1))

\* commit_params: the fields of piece->data the tone mapper reads, given the
\* spline dt_iop_filmic_rgb_compute_spline has built
tone_data(q, spline, contracted) ==
  [grey_source |-> IF q.custom_grey THEN RDiv(q.grey_point_source, R(100))
                                    ELSE Rat(1845, 10000),
   black_source |-> q.black_point_source,
   dynamic_range |-> RSub(q.white_point_source, q.black_point_source),
   output_power |-> q.output_power,
   saturation |-> committed_saturation(q.saturation, contracted),
   sigma_toe |-> sqf(RDiv(spline.latitude_min, R(3))),
   sigma_shoulder |-> sqf(RDiv(RSub(R(1), spline.latitude_max), R(3))),
   spline |-> spline]


commit_params_tone(q, contracted) ==
  tone_data(q, dt_iop_filmic_rgb_compute_spline(q), contracted)

\* the parameters explored, within their declared ranges: the extreme luminance
\* saturation at its minimum, at 0 and at 150 %, a custom grey of 25 %, the
\* hardness 1, which keeps the products of the fractions small
ToneSaturations == {R(-50), R(0), R(150)}
ToneParams ==
  {[contrast |-> c, black_point_source |-> R(-8), white_point_source |-> R(8),
    latitude |-> R(50), balance |-> R(0), custom_grey |-> TRUE, grey_point_source |-> R(25),
    grey_point_target |-> R(50), output_power |-> R(1), black_point_target |-> R(0),
    white_point_target |-> R(100), shadows |-> t, highlights |-> t, saturation |-> sat] :
     c \in {Rat(4, 3)}, t \in CurveTypes, sat \in ToneSaturations}

\* input pixels: channels negative, zero, in the toe, at grey, above grey and at
\* the white point of the parameters explored
ToneChannels == {R(-1), R(0), Rat(1, 256), Rat(1, 4), R(2), R(64)}
TonePixels == {<<r, g, b, R(1)>> : r \in ToneChannels, g \in {R(0), R(2)}, b \in {R(-1), Rat(1, 4)}}
                \cup {<<c, c, c, R(1)>> : c \in ToneChannels}

NoToneData == [grey_source |-> R(0), black_source |-> R(0), dynamic_range |-> R(0),
               output_power |-> R(0), saturation |-> R(0), sigma_toe |-> R(0),
               sigma_shoulder |-> R(0), spline |-> NoSpline]

ToneParked ==
  tm = [pc |-> "parked", p |-> CHOOSE q \in ToneParams : TRUE, d |-> NoToneData,
        pix_in |-> <<R(0), R(0), R(0), R(0)>>, pix_out |-> <<>>]

\* the parameters as edited; the pixel comes with the call of process
ToneInit ==
  tm \in [pc : {"edited"}, p : ToneParams, d : {NoToneData},
          pix_in : {<<R(0), R(0), R(0), R(0)>>}, pix_out : {<<>>}]

Tone_CommitParams ==
  /\ tm.pc = "edited"
  /\ \E contracted \in BOOLEAN :
       tm' = [tm EXCEPT !.d = commit_params_tone(tm.p, contracted), !.pc = "committed"]
  /\ UNCHANGED toneFrame

\* process: filmic_chroma_v2 with the max RGB norm on one pixel
Tone_FilmicChromaV2 ==
  /\ tm.pc = "committed"
  /\ \E pix_in \in TonePixels :
       \E pix_out \in filmic_chroma_v2(pix_in, DT_FILMIC_METHOD_MAX_RGB, NoProfile, tm.d,
                                        tm.d.spline) :
         tm' = [tm EXCEPT !.pix_in = pix_in, !.pix_out = pix_out, !.pc = "mapped"]
  /\ UNCHANGED toneFrame

ToneNext == Tone_CommitParams \/ Tone_FilmicChromaV2

(***************************************************************************)
vars == <<procVars, scaleVars, guiVars, reconVars, curveVars, noiseVars, pixelVars,
         tapVars, loopVars, showMaskVars, toneVars>>

\* one invocation of process
Init == ProcInit /\ ScalesParked /\ GuiParked /\ ReconParked /\ CurveParked /\ NoiseParked /\ PixelParked /\ TapParked /\ LoopParked /\ ShowMaskParked /\ ToneParked
Next == ProcNext
Spec == Init /\ [][Next]_vars

\* one call of get_scales and the scale loop that follows it
InitScales == ProcParked /\ ScalesInit /\ GuiParked /\ ReconParked /\ CurveParked /\ NoiseParked /\ PixelParked /\ TapParked /\ LoopParked /\ ShowMaskParked /\ ToneParked
SpecScales == InitScales /\ [][ScalesNext]_vars

\* one darkroom session of parameter edits, each followed or not by a commit
InitGui == ProcParked /\ ScalesParked /\ GuiInit /\ ReconParked /\ CurveParked /\ NoiseParked /\ PixelParked /\ TapParked /\ LoopParked /\ ShowMaskParked /\ ToneParked
SpecGui == InitGui /\ [][GuiNext]_vars

\* one reconstruct_highlights call, from init_reconstruct to its return
InitRecon == ProcParked /\ ScalesParked /\ GuiParked /\ ReconInit /\ CurveParked /\ NoiseParked /\ PixelParked /\ TapParked /\ LoopParked /\ ShowMaskParked /\ ToneParked
SpecRecon == InitRecon /\ [][ReconNext]_vars

\* two inpaint_noise calls on the same arguments
InitNoise == ProcParked /\ ScalesParked /\ GuiParked /\ ReconParked /\ CurveParked /\ NoiseInit /\ PixelParked /\ TapParked /\ LoopParked /\ ShowMaskParked /\ ToneParked
SpecNoise == InitNoise /\ [][NoiseNext]_vars

\* the per-pixel routines on one buffer
InitPixel == ProcParked /\ ScalesParked /\ GuiParked /\ ReconParked /\ CurveParked /\ NoiseParked /\ PixelInit /\ TapParked /\ LoopParked /\ ShowMaskParked /\ ToneParked
SpecPixel == InitPixel /\ [][PixelNext]_vars

\* one pixel of one blur pass
InitTap == ProcParked /\ ScalesParked /\ GuiParked /\ ReconParked /\ CurveParked /\ NoiseParked /\ PixelParked /\ TapInit /\ LoopParked /\ ShowMaskParked /\ ToneParked
SpecTap == InitTap /\ [][TapNext]_vars

\* one parallel loop run by a team of threads
InitLoop == ProcParked /\ ScalesParked /\ GuiParked /\ ReconParked /\ CurveParked /\ NoiseParked /\ PixelParked /\ TapParked /\ LoopInit /\ ShowMaskParked /\ ToneParked
SpecLoop == InitLoop /\ [][LoopNext]_vars

\* the GUI events of a darkroom session and the runs of process between them
InitShowMask == ProcParked /\ ScalesParked /\ GuiParked /\ ReconParked /\ CurveParked /\ NoiseParked /\ PixelParked /\ TapParked /\ LoopParked /\ ShowMaskInit /\ ToneParked
SpecShowMask == InitShowMask /\ [][ShowMaskNext]_vars

\* one commit of the parameters and one pixel through filmic_chroma_v2
InitTone == ProcParked /\ ScalesParked /\ GuiParked /\ ReconParked /\ CurveParked /\ NoiseParked /\ PixelParked /\ TapParked /\ LoopParked /\ ShowMaskParked /\ ToneInit
SpecTone == InitTone /\ [][ToneNext]_vars

\* one commit of the curve parameters and one evaluation of the spline
InitCurve == ProcParked /\ ScalesParked /\ GuiParked /\ ReconParked /\ CurveInit /\ NoiseParked /\ PixelParked /\ TapParked /\ LoopParked /\ ShowMaskParked /\ ToneParked
SpecCurve == InitCurve /\ [][CurveNext]_vars

(***************************************************************************)
(* Properties of process.                                                  *)
(***************************************************************************)
Returned == pc = "returned"
ReconstructionRoutines ==
  {"init_reconstruct", "blur_2D_Bspline_vertical", "blur_2D_Bspline_horizontal",
   "wavelets_detail_level_RGB", "wavelets_detail_level_ratios",
   "wavelets_reconstruct_RGB", "wavelets_reconstruct_ratios",
   "compute_ratios", "restore_ratios"}
ToneMappers == {"filmic_split_v1", "filmic_split_v2", "filmic_chroma_v1", "filmic_chroma_v2"}

\* C1: whatever allocations fail, process never reads or writes through a
\* null buffer (and so goes on to tone-map and return).  Stated as in the claim.
C1_NoNullBufferAccess == fault # "null_deref"

\* C2: when a scale-scratch allocation of reconstruct_highlights fails, the call
\* returns failure without having written reconstructed, and process, when it
\* returns, has tone-mapped the original input buffer; in the first pass and in
\* every ratio-domain iteration alike.
C2_FailedScaleAllocFallsBackToInput ==
  /\ (pc = "rh_error" /\ ~rh.success) => ~rh.wrote
  /\ (tm_in # "none" /\ "scale" \in alloc_failed) => tm_in = "ivoid"
  /\ (Returned /\ "scale" \in alloc_failed) => tm_in = "ivoid"

\* the case of C2: a scale allocation failed in a ratio-domain iteration after a
\* successful first pass, and process has returned
C2_Witness ==
  /\ Returned /\ "scale" \in alloc_failed /\ success_1 /\ ~success_2
  /\ tm_in = "ivoid" /\ "wavelets_reconstruct_RGB" \in ran

\* C3: whenever any scratch allocation of the invocation fails, the tone mapper
\* is given the original input buffer and a diagnostic has been logged.  Stated
\* as in the claim.
C3_AnyAllocFailureFallsBackAndLogs ==
  (tm_in # "none" /\ alloc_failed # {}) => (tm_in = "ivoid" /\ MSG_ALLOC \in logged)

\* the claim's own count: the pixels whose argument
\* feather - pix_max * (feather / threshold) is below 4
ClaimClippedPixels ==
  {k \in Pixels :
     LET pix_max == sqrtf(RAdd(RAdd(RMul(ivoid[k][1], ivoid[k][1]), RMul(ivoid[k][2], ivoid[k][2])),
                               RMul(ivoid[k][3], ivoid[k][3])))
         argument == RSub(data.reconstruct_feather,
                          RMul(pix_max, RDiv(data.reconstruct_feather, data.reconstruct_threshold)))
     IN  argument[1] < 4 * argument[2]}

\* C4: mask_clipped_pixels reports that reconstruction is worthwhile exactly
\* when strictly more than 9 pixels have argument < 4; when it reports
\* otherwise, no noise inpainting and no reconstruction pass runs and the tone
\* mapper reads the input buffer.
C4_RecoveryOnlyAboveNineClipped ==
  "mask_clipped_pixels" \in ran =>
     /\ pc = "display_test" => recover_highlights = (Cardinality(ClaimClippedPixels) > 9)
     /\ ~recover_highlights =>
          /\ "inpaint_noise" \notin ran
          /\ ran \cap ReconstructionRoutines = {}
          /\ rh = NoFrame
          /\ heap["inpainted"] = "none"
          /\ in = "ivoid"
          /\ tm_in \in {"none", "ivoid"}
          /\ Returned /\ "display_mask" \notin ran => tm_in = "ivoid"

\* the case of C4: exactly 9 clipped pixels on a pipe that is not FAST, both
\* buffers allocated, and process has returned after tone mapping
C4_Witness ==
  /\ Returned /\ Cardinality(ClaimClippedPixels) = 9 /\ ~piece.type.fast
  /\ alloc_failed = {} /\ ~recover_highlights /\ tm_in = "ivoid"

\* what display_mask leaves in the output: every float of a pixel is its mask weight
MaskDisplayed ==
  \A k \in Pixels : ovoid[k].src = "display_mask" /\ ovoid[k].w = mask[k] /\ ovoid[k].a = mask[k]

NothingButMaskRan == ran \subseteq {"mask_clipped_pixels", "display_mask"}

\* C7 as stated: when the show-mask flag is active (on 4-channel input), process
\* returns with the mask weights in the output and has run no noise inpainting,
\* no reconstruction and no tone mapper.
C7_ShowMaskFlagAlone ==
  (Returned /\ self.show_mask /\ piece.colors = 4) =>
     (MaskDisplayed /\ NothingButMaskRan /\ tm_in = "none")

\* C7 amended: when the show-mask flag is active, the GUI is attached and the
\* pipe is of type FULL, process (on 4-channel input) returns with every pixel's
\* mask weight in the output and has run no noise inpainting, no reconstruction
\* and no tone mapper; and the mask weights are displayed in no other case.
C7_ShowMaskOnFullGuiPipe ==
  /\ (Returned /\ self.show_mask /\ self.gui_attached /\ piece.type.full /\ piece.colors = 4) =>
       (MaskDisplayed /\ NothingButMaskRan /\ tm_in = "none"
        /\ mask = mask_weights(ivoid, RDiv(data.reconstruct_feather, data.reconstruct_threshold),
                               data.reconstruct_feather))
  /\ "display_mask" \in ran => (self.show_mask /\ self.gui_attached /\ piece.type.full)

\* the case of C7: the mask was displayed although enough pixels are clipped
\* for a reconstruction
C7_Witness ==
  /\ Returned /\ self.show_mask /\ self.gui_attached /\ piece.type.full
  /\ recover_highlights /\ "display_mask" \in ran /\ ovoid[1].w = Rat(1, 9)

AlphaPassedThrough == \A k \in Pixels : ovoid[k].a = ivoid[k][4]

\* C8 as stated: with the pipe's mask_display flag set, after process returns
\* (4-channel input) every output alpha is the input's alpha, on every path.
C8_AlphaCopiedOnEveryPath ==
  (Returned /\ piece.mask_display /\ piece.colors = 4) => AlphaPassedThrough

\* C8 amended: with the pipe's mask_display flag set, after process returns on a
\* path that went past the mask display (4-channel input, show-mask return not
\* taken) every output alpha is the alpha of the original input, also when the
\* reconstructed buffer replaced the input; on the show-mask return the alpha
\* holds the mask weight instead.
C8_AlphaCopiedPastMaskDisplay ==
  /\ (Returned /\ piece.mask_display /\ piece.colors = 4 /\ "display_mask" \notin ran) =>
       AlphaPassedThrough
  /\ (Returned /\ "display_mask" \in ran) => \A k \in Pixels : ovoid[k].a = mask[k]

\* the case of C8: the tone mapper read the reconstructed buffer
C8_Witness ==
  Returned /\ piece.mask_display /\ tm_in = "reconstructed" /\ AlphaPassedThrough

\* C9: if piece->colors is not 4, process logs the warning and returns having
\* allocated no buffer and written no element of the output.
C9_ChannelGuardIsNoOp ==
  piece.colors # 4 =>
     /\ pc \in {"entry", "returned"}
     /\ Returned => MSG_RGB_ONLY \in logged
     /\ heap = EmptyHeap /\ alloc_failed = {}
     /\ ovoid \in OutInits
     /\ ran = {}

C9_Witness == Returned /\ piece.colors = 3 /\ logged = {MSG_RGB_ONLY}

(***************************************************************************)
(* Properties of get_scales.                                               *)
(***************************************************************************)
\* C6: get_scales returns a scale count in [1, 12] for every region size, zoom
\* scale and iscale, so the tap step 2^s of the blur never exceeds 2^11.
C6_ScalesWithinBounds ==
  /\ gs.scales # 0 => (1 <= gs.scales /\ gs.scales <= 12)
  /\ gs.mult <= 2048
  /\ gs.s <= 12

\* the case of C6: the formula gives more than 12 scales, the count returned is 12
\* and the scale loop has reached its last tap step
C6_Witness ==
  /\ gs.scales = 12 /\ gs.s = 12 /\ gs.mult = 2048
  /\ \A sc \in scales_unclamped(gs.roi_scale, gs.iscale, gs.buf_w, gs.buf_h) : sc > 12

(***************************************************************************)
(* Properties of the parameter edits.                                      *)
(***************************************************************************)
\* C10: starting from parameters within their declared ranges, after any
\* sequence of gui_changed edits, auto pickers and reload_defaults, the parameters
\* handed to commit_params have dynamic_range = white_point_source -
\* black_point_source > 0.
C10_CommittedDynamicRangePositive ==
  committed.done => RLess(R(0), committed.dynamic_range)

(***************************************************************************)
(* Properties of the reconstruction on pixel values.                       *)
(***************************************************************************)
\* C5: reconstruct_highlights (RGB or ratio variant) called with a mask whose
\* weights are all 0 leaves the reconstructed buffer equal to its input buffer at
\* every pixel, for any input buffer, scale count and balance weights.
C5_ZeroMaskLeavesInput ==
  (wv.pc = "returned" /\ wv.mask = ZeroMask) => wv.reconstructed = wv.in

(***************************************************************************)
(* Properties of the curve.                                                *)
(***************************************************************************)
CurveCommitted == cv.pc \in {"committed", "evaluated"}

\* C11: for all parameters in their declared ranges, the spline commit_params
\* commits, which process evaluates, has a linear segment whose slope is the
\* contrast as commit_params clamped it, so that grey_display - slope * grey_log
\* <= 0.  Stated as in the claim.
C11_SplineSlopeIsClampedContrast ==
  CurveCommitted =>
     LET slope == cv.d.spline.M[3][2]
     IN  /\ slope = cv.d.contrast
         /\ RLeq(RSub(cv.d.grey_display, RMul(slope, cv.d.grey_log)), R(0))

\* the first derivative M2 + 2 M3 x + 3 M4 x^2 + 4 M5 x^3 of a segment
SegmentSlope(m, x) ==
  RAdd(m[2], RMul(x, RAdd(RMul(R(2), m[3]),
                          RMul(x, RAdd(RMul(R(3), m[4]), RMul(x, RMul(R(4), m[5])))))))

NodesInOrder(spline) ==
  /\ RLess(R(0), spline.x[2]) /\ RLess(spline.x[2], spline.x[3])
  /\ RLess(spline.x[3], spline.x[4]) /\ RLess(spline.x[4], R(1))

\* C13: for every parameter set whose nodes satisfy 0 < toe_x < grey_x <
\* shoulder_x < 1 and each combination of cubic or quartic toe and shoulder, the
\* toe and the linear segment have the same value and the same first derivative
\* at latitude_min, and the shoulder and the linear segment have the same value
\* and the same first derivative at latitude_max.
C13_SplineContinuousAtLatitudeBounds ==
  (CurveCommitted /\ NodesInOrder(cv.d.spline)) =>
     LET sp == cv.d.spline
         toe == sp.M[1]
         shoulder == sp.M[2]
         linear == sp.M[3]
     IN  /\ segment_value(toe, sp.latitude_min) = segment_value(linear, sp.latitude_min)
         /\ SegmentSlope(toe, sp.latitude_min) = SegmentSlope(linear, sp.latitude_min)
         /\ segment_value(shoulder, sp.latitude_max) = segment_value(linear, sp.latitude_max)
         /\ SegmentSlope(shoulder, sp.latitude_max) = SegmentSlope(linear, sp.latitude_max)
         /\ ~IsNaN(segment_value(toe, sp.latitude_min))
         /\ ~IsNaN(segment_value(shoulder, sp.latitude_max))

\* the case of C13: a cubic toe and a quartic shoulder, both truly curved, on
\* nodes shifted by the balance, evaluated by process at latitude_max
C13_Witness ==
  /\ cv.pc = "evaluated" /\ NodesInOrder(cv.d.spline)
  /\ cv.p.shadows = DT_FILMIC_CURVE_POLY_3 /\ cv.p.highlights = DT_FILMIC_CURVE_POLY_4
  /\ cv.p.balance # R(0)
  /\ cv.d.spline.M[1][4] # R(0) /\ cv.d.spline.M[2][5] # R(0)
  /\ cv.x = cv.d.spline.latitude_max
  /\ cv.out = cv.d.spline.y[4]

(***************************************************************************)
(* Properties of inpaint_noise.                                            *)
(***************************************************************************)
\* C12: two runs of inpaint_noise on the same input, mask and parameters give
\* identical inpainted buffers, however the pixels are distributed across the
\* worker threads.  Stated as in the claim.
C12_InpaintedSameForAnyTeam ==
  (\A r \in NoiseRuns : nz.pc[r] = "returned") => nz.inpainted[1] = nz.inpainted[2]

(***************************************************************************)
(* The per-pixel routines                                                  *)
(***************************************************************************)
AllZero(pixel) == pixel[1] = R(0) /\ pixel[2] = R(0) /\ pixel[3] = R(0)
NonNegative(pixel) == RLeq(R(0), pixel[1]) /\ RLeq(R(0), pixel[2]) /\ RLeq(R(0), pixel[3])
NormIsLength(variant) == variant \in {DT_FILMIC_METHOD_POWER_NORM, DT_FILMIC_METHOD_EUCLIDEAN_NORM}

\* C14 as stated: for every pixel get_pixel_norm returns a value >= 0 whatever
\* the variant, and the Euclidean and power norms return 0 only for the pixel
\* whose three channels are 0.
C14_NormNeverNegative ==
  px.pc = "norms" =>
    \A k \in 1..Len(px.buf) :
      /\ RLeq(R(0), px.norms[k])
      /\ (NormIsLength(px.variant) /\ px.norms[k] = R(0)) => AllZero(px.buf[k])

\* C14: get_pixel_norm returns a value >= 0 for every variant on a pixel whose
\* three channels are non-negative; the Euclidean and power norms are >= 0 on
\* every pixel and return 0 only for the pixel whose three channels are 0.
C14_NormNonNegativeOnNonNegativePixels ==
  px.pc = "norms" =>
    \A k \in 1..Len(px.buf) :
      /\ NonNegative(px.buf[k]) => RLeq(R(0), px.norms[k])
      /\ NormIsLength(px.variant) =>
           /\ RLeq(R(0), px.norms[k])
           /\ px.norms[k] = R(0) => AllZero(px.buf[k])

\* the power norm of a buffer holding the zero pixel and pixels with a negative channel
C14_Witness ==
  /\ px.pc = "norms"
  /\ px.variant = DT_FILMIC_METHOD_POWER_NORM
  /\ \E k \in 1..Len(px.buf) : AllZero(px.buf[k]) /\ px.norms[k] = R(0)
  /\ \E k \in 1..Len(px.buf) : ~NonNegative(px.buf[k]) /\ RLess(R(0), px.norms[k])

\* C15: restore_ratios applied to the ratios and norms compute_ratios stored
\* gives back the three colour channels of every pixel of the input.
C15_RestoreInvertsComputeRatios ==
  px.pc = "restored" =>
    \A k \in 1..Len(px.buf) : \A c \in 1..3 : px.ratios[k][c] = px.buf[k][c]

\* a restored buffer with a pixel whose norm was raised to NORM_MIN and a pixel
\* whose ratios differed from its channels
C15_Witness ==
  /\ px.pc = "restored"
  /\ \E k \in 1..Len(px.buf) : px.norms[k] = NORM_MIN
  /\ \E k \in 1..Len(px.buf) :
       /\ px.norms[k] \notin {NORM_MIN, R(1)}
       /\ px.buf[k][1] # R(0)
       /\ px.ratios[k][1] = px.buf[k][1]

AllOnes(pixel) == pixel[1] = R(1) /\ pixel[2] = R(1) /\ pixel[3] = R(1)
ThreeStops(q) == q.reconstruct_threshold = R(3) /\ q.reconstruct_feather = R(3)

\* C16 as stated: with threshold and feather at 3 stops the mask weight of a
\* pixel whose three channels are 1.0 is above 0.9.
C16_WhitePixelWeightAbove09 ==
  (px.pc = "masked" /\ ThreeStops(px.p)) =>
    \A k \in 1..Len(px.buf) : AllOnes(px.buf[k]) => RLess(Rat(9, 10), px.mask[k])

\* C16: with threshold and feather at 3 stops the mask weight of a pixel whose
\* three channels are 1.0 is above 0.9 when the committed threshold
\* 2^(white_point_source + 3) * grey_source is at most 1, and below 0.9 when
\* the committed threshold is 2 or more.
C16_WhitePixelWeightByCommittedThreshold ==
  (px.pc = "masked" /\ ThreeStops(px.p)) =>
    \A k \in 1..Len(px.buf) :
      AllOnes(px.buf[k]) =>
        /\ RLeq(px.d.reconstruct_threshold, R(1)) => RLess(Rat(9, 10), px.mask[k])
        /\ RLeq(R(2), px.d.reconstruct_threshold) => RLess(px.mask[k], Rat(9, 10))

\* the white patch masked with a committed threshold of 1: its pixels are
\* above 0.9 and the pixels around it are not
C16_Witness ==
  /\ px.pc = "masked"
  /\ ThreeStops(px.p)
  /\ px.d.reconstruct_threshold = R(1)
  /\ px.d.reconstruct_feather = R(16)
  /\ \E k \in 1..Len(px.buf) : AllOnes(px.buf[k]) /\ RLess(Rat(9, 10), px.mask[k])
  /\ \E k \in 1..Len(px.buf) : ~AllOnes(px.buf[k]) /\ RLess(px.mask[k], Rat(1, 10))

(***************************************************************************)
(* process and reconstruct_highlights: buffers, scales, refinement         *)
(***************************************************************************)
\* the positions inside a reconstruct_highlights call, past its allocations
InReconstructHighlights ==
  {"rh_init", "rh_scale", "rh_blur_v_lf", "rh_blur_h_lf", "rh_detail", "rh_blur_v_hf",
   "rh_blur_h_hf", "rh_reconstruct", "rh_error"}
\* the positions inside the body of a scale
InScale ==
  {"rh_blur_v_lf", "rh_blur_h_lf", "rh_detail", "rh_blur_v_hf", "rh_blur_h_hf", "rh_reconstruct"}

\* C17: every buffer allocated during a process invocation is released
\* exactly once before process returns, whatever the exit path, and the five
\* buffers of a reconstruct_highlights call are released exactly once before
\* that call returns.
C17_BuffersReleasedExactlyOnce ==
  /\ \A b \in AllBufs : heap[b] # "freed_twice"
  /\ Returned => \A b \in AllBufs : heap[b] # "live"
  /\ pc \notin (InReconstructHighlights \cup {"crashed"}) => \A b \in ScaleBufs : heap[b] # "live"

\* a return after a reconstruction with refinement: all ten buffers were
\* allocated and all ten are released
C17_Witness ==
  /\ Returned
  /\ "wavelets_reconstruct_ratios" \in ran
  /\ \A b \in AllBufs : heap[b] = "freed"

\* C18: at the head of a scale the detail input is the call's input buffer at
\* scale 0 and, at a scale s >= 1, the low-frequency buffer the previous scale
\* wrote; the detail input and the low-frequency buffer of the scale differ.
C18_DetailIsPreviousLF ==
  [][(pc = "rh_scale" /\ pc' = "rh_blur_v_lf") =>
       /\ rh'.detail = (IF rh.s = 0 THEN rh.input ELSE rh.LF)
       /\ rh.s >= 1 => hist.steps[2].writes = {rh'.detail}
       /\ rh'.detail # rh'.LF]_vars

\* the third scale of a ratio pass: detail is the even slot, LF the odd one
C18_Witness ==
  /\ pc = "rh_blur_v_lf"
  /\ rh.variant = DT_FILMIC_RECONSTRUCT_RATIOS
  /\ rh.s = 2
  /\ rh.detail = "LF_even"
  /\ rh.LF = "LF_odd"

\* the six steps of a scale, in order
ScaleOrder(variant, detail, LF) ==
  << Step("blur_2D_Bspline_vertical", {detail}, {"temp"}),
     Step("blur_2D_Bspline_horizontal", {"temp"}, {LF}),
     Step(wavelets_detail_level(variant), {detail, LF}, {"HF_RGB", "HF_grey"}),
     Step("blur_2D_Bspline_vertical", {"HF_RGB"}, {"temp"}),
     Step("blur_2D_Bspline_horizontal", {"temp"}, {"HF_RGB"}),
     Step(wavelets_reconstruct(variant), {"HF_RGB", LF, "HF_grey", "mask"}, {"reconstructed"}) >>

\* the number of steps of the running scale made before each position
StepsBefore(position) ==
  CASE position = "rh_blur_v_lf" -> 0
    [] position = "rh_blur_h_lf" -> 1
    [] position = "rh_detail" -> 2
    [] position = "rh_blur_v_hf" -> 3
    [] position = "rh_blur_h_hf" -> 4
    [] position = "rh_reconstruct" -> 5
    [] OTHER -> 6

\* C19: within a scale the steps made so far are the first steps of the fixed
\* order (blur of detail into temp, blur of temp into LF, high-frequency
\* extraction, blur of HF into temp, blur of temp into HF, accumulation into
\* reconstructed), each made once; the scales started are 0, 1, ... in order,
\* and a scale starts only after the six steps of the one before it.
C19_StepsInFixedOrder ==
  /\ pc \in InScale =>
       /\ hist.steps = SubSeq(ScaleOrder(rh.variant, rh.detail, rh.LF), 1, StepsBefore(pc))
       /\ hist.scales = [n \in 1..(rh.s + 1) |-> n - 1]
  /\ (pc = "rh_scale" /\ rh.s > 0) =>
       /\ hist.steps = ScaleOrder(rh.variant, rh.detail, rh.LF)
       /\ hist.scales = [n \in 1..rh.s |-> n - 1]

\* the head of the loop after the last of three scales
C19_Witness ==
  /\ pc = "rh_scale"
  /\ rh.s = 3
  /\ rh.scales = 3
  /\ Len(hist.steps) = 6
  /\ hist.scales = <<0, 1, 2>>

\* the calls of `n` refinement iterations
RefinementCalls(n) ==
  [k \in 1..(3 * n) |->
     LET iteration == (k - 1) \div 3
     IN  CASE (k - 1) % 3 = 0 -> Call("compute_ratios", iteration, "reconstructed",
                                      DT_FILMIC_METHOD_EUCLIDEAN_NORM)
           [] (k - 1) % 3 = 1 -> Call("reconstruct_highlights", iteration, "ratios",
                                      DT_FILMIC_RECONSTRUCT_RATIOS)
           [] OTHER -> Call("restore_ratios", iteration, "reconstructed", iteration)]

\* the first pass was made and returned success
FirstPassSucceeded == "inpaint_noise" \in ran /\ success_1

\* C20: when process returns after a successful first pass with every
\* allocation successful, it has made exactly high_quality_reconstruction
\* refinement iterations, each compute_ratios (Euclidean norm, on
\* reconstructed), then the ratio variant of reconstruct_highlights on ratios,
\* then restore_ratios with the norms of the same iteration; it has made none
\* when the first pass failed or high_quality_reconstruction is 0.
C20_RefinementIterations ==
  Returned =>
    /\ (FirstPassSucceeded /\ alloc_failed = {}) =>
         hist.refine = RefinementCalls(data.high_quality_reconstruction)
    /\ (~FirstPassSucceeded \/ data.high_quality_reconstruction = 0) => hist.refine = <<>>

\* a return after MaxHQ refinement iterations
C20_Witness ==
  /\ Returned
  /\ FirstPassSucceeded
  /\ alloc_failed = {}
  /\ data.high_quality_reconstruction = MaxHQ
  /\ Len(hist.refine) = 3 * MaxHQ
  /\ hist.refine[3 * MaxHQ] = Call("restore_ratios", MaxHQ - 1, "reconstructed", MaxHQ - 1)

(***************************************************************************)
(* The taps of the blur passes                                             *)
(***************************************************************************)
\* the tap just read
TapRead == tp.pc \in {"taps", "stored"} /\ tp.jj > 0

\* C21: every tap t of every pixel, at every step mult, is read at index
\* clamp(pos + mult * (t - 2), 0, dim - 1) along the filtered axis and at the
\* pixel's own index along the other axis, inside the buffer, in the checked
\* branch and in the fast track.
C21_TapsReadClampedIndex ==
  TapRead =>
    LET t == tp.jj - 1
        axis == CLAMP(TapPos(tp) + tp.mult * (t - 2), 0, TapDim(tp) - 1)
    IN  /\ tp.index = axis
        /\ tp.read = (IF tp.pass = "blur_2D_Bspline_vertical"
                        THEN tp.i * tp.width + axis ELSE axis * tp.width + tp.j)
        /\ tp.read \in 0..(tp.width * tp.height - 1)

\* a tap of the checked branch clamped to the last index, at a step for which
\* 2 * mult is at least the length of the axis
C21_Witness ==
  /\ TapRead
  /\ tp.check
  /\ 2 * tp.mult >= TapDim(tp)
  /\ TapDim(tp) > 1
  /\ TapPos(tp) + tp.mult * (tp.jj - 3) > TapDim(tp) - 1
  /\ tp.index = TapDim(tp) - 1

(***************************************************************************)
(* process: the buffers given to the routines, the FAST pipe, the tone     *)
(* mapper                                                                  *)
(***************************************************************************)
\* the number of buffer parameters of each routine
BufferParams(routine) ==
  CASE routine \in {"inpaint_noise", "init_reconstruct", "compute_ratios"} -> 3
    [] routine \in {"wavelets_detail_level_RGB", "wavelets_detail_level_ratios"} -> 4
    [] routine \in {"wavelets_reconstruct_RGB", "wavelets_reconstruct_ratios"} -> 5
    [] OTHER -> 2

\* C22: every routine process and reconstruct_highlights call is given as many
\* different buffers as it has buffer parameters, none both as a source and as
\* a destination, and the tone mapper's input is not the output buffer.
C22_DistinctBuffersInEveryCall ==
  hist.last # NoStep =>
    /\ hist.last.reads \cap hist.last.writes = {}
    /\ Cardinality(hist.last.reads \cup hist.last.writes) = BufferParams(hist.last.routine)
    /\ hist.last.routine \in ToneMappers => "ovoid" \notin hist.last.reads

\* the accumulation of an odd scale of a ratio pass, given five different buffers
C22_Witness ==
  /\ hist.last = Step("wavelets_reconstruct_ratios", {"HF_RGB", "LF_even", "HF_grey", "mask"},
                      {"reconstructed"})
  /\ pc = "rh_scale"
  /\ rh.input = "ratios"

\* C26: process never reads or writes a buffer it has released.
C26_NoUseAfterRelease == fault # "use_after_free"

\* the tone mapper has read reconstructed after a refinement, and reconstructed,
\* norms, ratios, inpainted and mask are released
C26_Witness ==
  /\ pc = "alpha_copy"
  /\ tm_in = "reconstructed"
  /\ "restore_ratios" \in ran
  /\ \A b \in ProcessBufs : heap[b] = "freed"
  /\ fault = "none"

\* C27: on a FAST pipeline process runs neither the noise inpainting nor any
\* routine of the reconstruction, and the tone mapper reads the caller's input.
C27_FastPipeSkipsReconstruction ==
  piece.type.fast =>
    /\ "inpaint_noise" \notin ran
    /\ ran \cap ReconstructionRoutines = {}
    /\ in = "ivoid"
    /\ tm_in \in {"none", "ivoid"}

\* a FAST pipeline with more than nine clipped pixels and both buffers allocated
C27_Witness ==
  /\ Returned
  /\ piece.type.fast
  /\ recover_highlights
  /\ alloc_failed = {}
  /\ tm_in = "ivoid"

\* the invocation went past the channel guard and the mask display
ReachedToneMapping == Returned /\ ColorsOk(piece.colors) /\ "display_mask" \notin ran

\* C30: an invocation that reaches the tone mapping runs exactly one of the
\* four tone mappers, a split one when preserve_color is NONE and a
\* ratio-preserving one otherwise, v1 or v2 by version, and that routine
\* handles roi_out->width * roi_out->height pixels, the count the mask and the
\* reconstructed buffer were allocated for.
C30_OneToneMapperOnRoiOut ==
  ReachedToneMapping =>
    /\ ran \cap ToneMappers =
         {IF data.preserve_color = DT_FILMIC_METHOD_NONE
            THEN (IF data.version = DT_FILMIC_COLORSCIENCE_V1 THEN "filmic_split_v1"
                                                              ELSE "filmic_split_v2")
            ELSE (IF data.version = DT_FILMIC_COLORSCIENCE_V1 THEN "filmic_chroma_v1"
                                                              ELSE "filmic_chroma_v2")}
    /\ hist.pixels = roi_out.width * roi_out.height
    /\ Cardinality({k \in Pixels : ovoid[k].src \in ToneMappers})
         = roi_out.width * roi_out.height

\* a split tone mapper, which is given roi_in->height, has run on the whole region
C30_Witness ==
  /\ ReachedToneMapping
  /\ data.preserve_color = DT_FILMIC_METHOD_NONE
  /\ "filmic_split_v2" \in ran
  /\ hist.pixels = NPix
  /\ roi_in.height = roi_out.height

(***************************************************************************)
(* dt_iop_filmic_rgb_compute_spline: the order of the nodes                *)
(***************************************************************************)
\* C24: for parameters within their declared ranges the nodes placed by
\* dt_iop_filmic_rgb_compute_spline satisfy toe_x < grey_x < shoulder_x.
C24_NodesOrderedForDeclaredRanges ==
  CurveCommitted =>
    /\ RLess(cv.d.spline.x[2], cv.d.spline.x[3])
    /\ RLess(cv.d.spline.x[3], cv.d.spline.x[4])

(***************************************************************************)
(* reconstruct_highlights on a uniform neutral image                       *)
(***************************************************************************)
\* C29: on an input whose pixels all have R = G = B = c, the RGB variant of
\* reconstruct_highlights returns a reconstructed buffer whose three colour
\* channels equal c at every pixel, for every mask, scale count and balance
\* weights.
C29_NeutralInputStaysNeutral ==
  (wv.pc = "returned" /\ wv.in = FlatImage /\ wv.variant = DT_FILMIC_RECONSTRUCT_RGB) =>
     \A k \in RoiPixels : \A c \in 1..3 : wv.reconstructed[k][c] = FlatImage[k][c]

(***************************************************************************)
(* filmic_chroma_v2: the range of the output                               *)
(***************************************************************************)
\* C25: after filmic_chroma_v2 every colour channel of the output pixel lies in
\* [0, 1].
C25_ChromaV2OutputInUnitRange ==
  tm.pc = "mapped" =>
    \A c \in 1..3 : RLeq(R(0), tm.pix_out[c]) /\ RLeq(tm.pix_out[c], R(1))

(***************************************************************************)
(* The mask display switch                                                 *)
(***************************************************************************)
ShowMaskHidden ==
  /\ sm.last \in {"gui_init", "gui_update", "gui_focus_out"} => ~sm.show_mask
  /\ (sm.last = "process" /\ sm.run.out = "mask") =>
        /\ sm.run.gui_attached /\ sm.run.full
        /\ sm.lost_focus => sm.callback_since

ShowMaskChange ==
  sm'.show_mask # sm.show_mask =>
    \/ sm'.last \in {"gui_init", "gui_update", "gui_focus_out"} /\ ~sm'.show_mask
    \/ sm'.last = "show_mask_callback" /\ sm.reset = 0 /\ sm'.show_mask = ~sm.show_mask

\* C28: show_mask is false after gui_init, gui_update and every gui_focus with
\* in = false, and changes otherwise only by the toggle of show_mask_callback
\* with the reset counter at 0; after a loss of focus process does not output
\* the mask display until show_mask_callback is invoked again, and it outputs
\* the mask display only on a FULL pipe with the GUI attached.
C28_ShowMaskOnlyWhileToggledOn == [](sm.pc # "parked" => ShowMaskHidden) /\ [][ShowMaskChange]_vars

\* process outputs the mask display after the focus was lost and the callback
\* toggled the switch on again
C28_Witness ==
  /\ sm.last = "process"
  /\ sm.run.out = "mask"
  /\ sm.lost_focus
  /\ sm.callback_since
  /\ sm.show_mask

(***************************************************************************)
(* The parallel loops                                                      *)
(***************************************************************************)
LoopReturned == lp.pc = "returned"
ClippedPixels == clipped_count(lp.inbuf, R(1), R(16))

\* C23 as stated: the value mask_clipped_pixels returns is the number of pixels
\* with argument < 4.
C23_ReturnsClippedCount ==
  (LoopReturned /\ lp.routine = "mask_clipped_pixels") => lp.ret = ClippedPixels

\* C23: in every parallel per-pixel loop two different iterations never write
\* the same location, and under every distribution of the iterations across the
\* threads of a team the count mask_clipped_pixels accumulates is the number of
\* pixels with argument < 4; it returns whether that count exceeds 9.
C23_DisjointWritesAndExactCount ==
  /\ \A w1 \in lp.writers : \A w2 \in lp.writers : w1.loc = w2.loc => w1.k = w2.k
  /\ (LoopReturned /\ lp.routine = "mask_clipped_pixels") =>
        /\ lp.clipped = ClippedPixels
        /\ lp.ret = IF ClippedPixels > MIN_CLIPPED THEN 1 ELSE 0

\* ten clipped pixels counted by two threads, neither of which ran them all
C23_Witness ==
  /\ LoopReturned
  /\ lp.routine = "mask_clipped_pixels"
  /\ lp.clipped = LoopPix
  /\ lp.ret = 1
  /\ \E t1 \in Threads : \E t2 \in Threads : t1 # t2 /\ lp.private[t1] > 0 /\ lp.private[t2] > 0

=============================================================================
